---------------------------- MODULE Spec2Model ----------------------------
(***************************************************************************)
(* Model of ap-gnss-stats: the transcript parser (GnssInfoParser), the     *)
(* record assembler of the collector and the CSV exporter.                 *)
(*                                                                         *)
(* Text model.  A transcript is a sequence of tokens; a token is a tuple   *)
(* of strings.  A one-element tuple <<w>> is a whitespace-delimited word   *)
(* or label of the transcript (labels keep their colon and may hold inner  *)
(* blanks, as "Altitude MSL:"), <<"\n">> is a line break, a tuple that     *)
(* starts with "#show" is a prompt line "<name>#show <cmd>" (its command,  *)
(* then the characters of the name) and a tuple that starts with           *)
(* "hostname:" is the text "hostname: <name>".  Two adjacent words are     *)
(* separated by blanks, so "\s*" and "\s+" of a regular expression both    *)
(* read "skip the line breaks" and "\n\n" is two adjacent line breaks.     *)
(* Host names are tuples of one-character strings, so that length, prefix  *)
(* and slicing are computed, not assumed.                                  *)
(***************************************************************************)
EXTENDS Integers, Sequences, FiniteSets, TLC

VARIABLES content, ap_address, pstate, rec, include_raw,
          batch, append_mode, csvfile, exp_result, exports, dest_before,
          input_text, text_result, capwap_section, capwap_config,
          ap_list, concurrent, csv_enabled, main_pc, next_index, threads,
          active_threads, worker, results, csv_exports

vars == <<content, ap_address, pstate, rec, include_raw,
          batch, append_mode, csvfile, exp_result, exports, dest_before,
          input_text, text_result, capwap_section, capwap_config,
          ap_list, concurrent, csv_enabled, main_pc, next_index, threads,
          active_threads, worker, results, csv_exports>>

parserVars == <<content, ap_address, pstate, rec, include_raw>>
csvVars == <<batch, append_mode, csvfile, exp_result, exports, dest_before>>
textVars == <<input_text, text_result>>
capwapVars == <<capwap_section, capwap_config>>
collectorVars == <<ap_list, concurrent, csv_enabled, main_pc, next_index, threads,
                   active_threads, worker, results, csv_exports>>

-----------------------------------------------------------------------------
(* Bounds of the model                                                     *)

MaxLen == 3
MaxNameLen == 4
MaxAddrLen == 4
MaxRows == 2
MaxSats == 2
MaxExports == 2
MaxTextLines == 2
MaxCapwapLines == 4
MaxAps == 3
MaxConcurrent == 2

-----------------------------------------------------------------------------
(* Python values.  Every value is a tuple whose head is its type.          *)

Null == <<"null">>
TrueV == <<"bool", "true">>
FalseV == <<"bool", "false">>
BoolV(b) == IF b THEN TrueV ELSE FalseV
StrV(s) == <<"str", s>>
FloatV(s) == <<"float", s>>
IntV(s) == <<"int", s>>
NameV(chars) == <<"str">> \o chars

\* d[k] = v of a Python dict: adds the key when it is not there yet.
Put(d, k, v) == [x \in (DOMAIN d) \cup {k} |-> IF x = k THEN v ELSE d[x]]

-----------------------------------------------------------------------------
(* Tokens and lexical classes                                              *)

NL == <<"\n">>
W(s) == <<s>>
PromptTok(name, cmd) == <<"#show", cmd>> \o name
HostnameTok(name) == <<"hostname:">> \o name

IsWord(t) == Len(t) = 1 /\ t # NL
IsPrompt(t) == Len(t) >= 2 /\ t[1] = "#show"
IsHostname(t) == Len(t) >= 2 /\ t[1] = "hostname:"
PromptCmd(t) == t[2]
PromptName(t) == SubSeq(t, 3, Len(t))
HostnameOf(t) == SubSeq(t, 2, Len(t))

\* str.lower() on the words of the vocabulary that are not lower case.
LowerCaseOf ==
    ("N/A" :> "n/a") @@ ("GnssState:" :> "gnssstate:")
    @@ ("CiscoGNSS:" :> "ciscognss:")
    @@ ("GNSS_PostProcessor:" :> "gnss_postprocessor:")
    @@ ("Last Location Acquired:" :> "last location acquired:")
    @@ ("No GNSS detected" :> "no gnss detected") @@ ("Const." :> "const.")
    @@ ("ExternalAntenna:" :> "externalantenna:") @@ ("Fix:" :> "fix:")
    @@ ("ValidFix:" :> "validfix:") @@ ("Time:" :> "time:")
    @@ ("LastFixTime:" :> "lastfixtime:") @@ ("Latitude:" :> "latitude:")
    @@ ("Longitude:" :> "longitude:") @@ ("HorAcc:" :> "horacc:")
    @@ ("hDOP:" :> "hdop:") @@ ("Altitude MSL:" :> "altitude msl:")
    @@ ("HAE:" :> "hae:") @@ ("VertAcc:" :> "vertacc:")
    @@ ("NumSat:" :> "numsat:") @@ ("RangeRes:" :> "rangeres:")
    @@ ("GpGstRms:" :> "gpgstrms:")
    @@ ("SatelliteCount:" :> "satellitecount:")
    @@ ("Uncertainty Ellipse:" :> "uncertainty ellipse:")
    @@ ("Major axis:" :> "major axis:") @@ ("Minor axis:" :> "minor axis:")
    @@ ("Orientation:" :> "orientation:") @@ ("pDOP:" :> "pdop:")
    @@ ("vDOP:" :> "vdop:") @@ ("nDOP:" :> "ndop:") @@ ("eDOP:" :> "edop:")
    @@ ("gDOP:" :> "gdop:") @@ ("tDOP:" :> "tdop:")
    @@ ("Derivation Type:" :> "derivation type:") @@ ("GPS" :> "gps")
    @@ ("GLONASS" :> "glonass") @@ ("Galileo" :> "galileo")
    @@ ("BeiDou" :> "beidou") @@ ("Yes" :> "yes") @@ ("No" :> "no")
    @@ ("True" :> "true") @@ ("False" :> "false") @@ ("TRUE" :> "true")
    @@ ("Started" :> "started") @@ ("3D-Fix" :> "3d-fix")
    @@ ("GNSS_Receiver" :> "gnss_receiver") @@ ("SatId" :> "satid")
    @@ ("CNO" :> "cno") @@ ("SNR" :> "snr") @@ ("Elev." :> "elev.")
    @@ ("Azim." :> "azim.") @@ ("Signal" :> "signal") @@ ("Used" :> "used")
    @@ ("Health" :> "health") @@ ("L1" :> "l1") @@ ("Good" :> "good")


LowerIn(table, s) == IF s \in DOMAIN table THEN table[s] ELSE s

Lower(s) == LowerIn(LowerCaseOf, s)

\* An unanchored pattern that begins with a label also matches the tail of a
\* longer label: "Fix:" inside "ValidFix:", "Time:" inside "LastFixTime:".
LabelTails ==
    { <<"validfix:", "fix:">>, <<"lastfixtime:", "time:">>,
      <<"derivation time:", "time:">> }

\* A literal of a pattern against a word, both in lower case; only the
\* literal that begins a pattern can match the tail of a word.
LitOk(w, l, first) == w = l \/ (first /\ <<w, l>> \in LabelTails)

EndsWithLabel(word, label) == LitOk(Lower(word), Lower(label), TRUE)

\* The words of the vocabulary that match a character class completely.
DotNumWords == {"41.1", "0.9", "12", "0", "1.2.3"}          \* [\d\.]+
DashNumWords == DotNumWords \cup {"-7.5", "2025-01-01"}     \* [\d\.-]+
DigitWords == {"12", "0"}                                   \* \d+
DateWords == {"2025-01-01", "12", "0"}                      \* [\d-]+
ClockWords == {"10:00:00", "12", "0"}                       \* [\d:]+
BoolWords == {"true", "false", "True", "False", "TRUE"}     \* (true|false), IGNORECASE
AlnumWords == {"Started", "true", "false", "True", "False", "TRUE", "12", "0",
               "GPS", "GLONASS", "Galileo", "BeiDou", "Yes", "No", "L1",
               "Good", "x"}                                 \* \w+ / [A-Za-z0-9]+

\* float(s) and int(s) succeed on these words and raise ValueError on the rest.
FloatOk(s) == s \in {"41.1", "0.9", "12", "0", "-7.5"}
IntOk(s) == s \in {"12", "0"}

InClass(cls, s) ==
    CASE cls = "dotnum" -> s \in DotNumWords
      [] cls = "dashnum" -> s \in DashNumWords
      [] cls = "digits" -> s \in DigitWords
      [] cls = "date" -> s \in DateWords
      [] cls = "clock" -> s \in ClockWords
      [] cls = "bool" -> s \in BoolWords
      [] cls = "word" -> s \in AlnumWords
      [] cls = "nonspace" -> TRUE
      [] OTHER -> FALSE

-----------------------------------------------------------------------------
(* Regular expressions over tokens.  A pattern is a sequence of elements   *)
(* <<"lit", label>>, <<"cap", class>> (a capture group) and                *)
(* <<"cls", class>> (the class outside a group), with optional white       *)
(* space between any two of them.                                          *)

Lit(s) == <<"lit", s>>
Cap(cls) == <<"cap", cls>>
Cls(cls) == <<"cls", cls>>

NoMatch == <<"nomatch">>

\* The least index of a set of token indices, 0 if the set is empty.
FirstIndex(hits) ==
    IF hits = {} THEN 0 ELSE CHOOSE j \in hits : \A k \in hits : j <= k

\* The index of the first token after i, up to token "to", that is not a
\* line break; 0 if none.
NextTokIn(c, i, to) ==
    LET NotBreak(j) == c[j] # NL
    IN FirstIndex({n \in (i + 1)..to : NotBreak(n)})

NextTok(c, i) == NextTokIn(c, i, Len(c))

\* The labels of the vocabulary: words that end with a colon.
LabelWords ==
    {"GnssState:", "gnssstate:", "ExternalAntenna:", "Fix:", "ValidFix:",
     "Time:", "LastFixTime:", "Latitude:", "Longitude:", "HorAcc:", "hDOP:",
     "Altitude MSL:", "HAE:", "VertAcc:", "NumSat:", "RangeRes:", "GpGstRms:",
     "SatelliteCount:", "Uncertainty Ellipse:", "Major axis:", "Minor axis:",
     "Orientation:", "pDOP:", "vDOP:", "nDOP:", "eDOP:", "gDOP:", "tDOP:",
     "GNSS_PostProcessor:", "CiscoGNSS:", "ciscognss:",
     "Last Location Acquired:", "Derivation Type:"}

\* The words of the vocabulary that do not match a class completely but
\* begin with text that does: a capture group at the end of a pattern takes
\* that text ("10" of "10:00:00" for [\d\.]+).
PrefixWords(cls) ==
    CASE cls = "dotnum" -> {"2025-01-01", "10:00:00", "3D-Fix"}
      [] cls = "dashnum" -> {"10:00:00", "3D-Fix"}
      [] cls = "digits" -> {"41.1", "0.9", "1.2.3", "2025-01-01", "10:00:00", "3D-Fix"}
      [] cls = "clock" -> {"41.1", "0.9", "1.2.3", "2025-01-01", "3D-Fix"}
      [] cls = "word" -> {"41.1", "0.9", "1.2.3", "2025-01-01", "10:00:00",
                          "3D-Fix", "N/A", "n/a", "Const."} \cup LabelWords
      [] OTHER -> {}

\* The text a capture group takes from word w: <<w>> for the whole word,
\* <<w, cls>> for its longest beginning in the class, NoMatch for none.
CapOf(cls, w, isLast) ==
    IF InClass(cls, w) THEN <<w>>
    ELSE IF isLast /\ w \in PrefixWords(cls) THEN <<w, cls>>
    ELSE NoMatch

\* Match pat[k..] within c[1..to] with pat[k] on token i; the captured
\* texts, or NoMatch.
\* Element e of a pattern matches word w.
ElemOk(e, w, first, last) ==
    IF e[1] = "lit" THEN LitOk(Lower(w), Lower(e[2]), first)
    ELSE IF e[1] = "cls" THEN InClass(e[2], w)
    ELSE CapOf(e[2], w, last) # NoMatch

\* What element e of a pattern captures from word w.
ElemCaps(e, w, last) ==
    IF e[1] = "cap" THEN <<CapOf(e[2], w, last)>> ELSE <<>>

Prepend(caps, rest) == IF rest = NoMatch THEN NoMatch ELSE caps \o rest

RECURSIVE MatchAt(_, _, _, _, _)
MatchAt(c, i, to, pat, k) ==
    IF k > Len(pat) THEN <<>>
    ELSE IF i = 0 \/ i > to THEN NoMatch
    ELSE IF ~IsWord(c[i]) THEN NoMatch
    ELSE IF ~ElemOk(pat[k], c[i][1], k = 1, k = Len(pat)) THEN NoMatch
    ELSE Prepend(ElemCaps(pat[k], c[i][1], k = Len(pat)),
                 MatchAt(c, NextTokIn(c, i, to), to, pat, k + 1))

\* The captures of the pair with the least index in a set of
\* <<index, captures>> pairs, NoMatch if the set is empty.
Leftmost(ms) ==
    IF ms = {} THEN NoMatch
    ELSE (CHOOSE m \in ms : \A x \in ms : m[1] <= x[1])[2]

SearchIn(c, from, last, pat) ==
    Leftmost({m \in {<<n, MatchAt(c, n, last, pat, 1)>> : n \in from..last} :
                m[2] # NoMatch})

\* re.search(pat, c[from..to]): the captures of the leftmost match.
SearchFrom(c, from, to, pat) ==
    SearchIn(c, from, IF to > Len(c) THEN Len(c) ELSE to, pat)


\* The index of the first token of c[from..to] that ends with the label, 0 if none.
FindLabelIn(c, from, to, label) ==
    LET Hit(i) == IsWord(c[i]) /\ EndsWithLabel(c[i][1], label)
    IN FirstIndex({n \in from..to : Hit(n)})

FindLabel(c, from, label) == FindLabelIn(c, from, Len(c), label)

\* The index of the first "\n\n" at or after token i (the first of the two
\* line breaks), 0 if none.
FindBlankLine(c, i) ==
    LET Hit(j) == c[j] = NL /\ c[j + 1] = NL
    IN FirstIndex({n \in i..(Len(c) - 1) : Hit(n)})

-----------------------------------------------------------------------------
(* Host names: tuples of characters                                        *)

MaxApNameLen == 32

HasHyphen(n) == \E i \in 1..Len(n) : n[i] = "-"

\* n.split('-')[-1]
RECURSIVE LastSegment(_)
LastSegment(n) ==
    IF n = <<>> THEN <<>>
    ELSE IF n[Len(n)] = "-" THEN <<>>
    ELSE LastSegment(SubSeq(n, 1, Len(n) - 1)) \o <<n[Len(n)]>>

\* addr.split('.')[0]
RECURSIVE FirstDotPart(_)
FirstDotPart(a) ==
    IF a = <<>> THEN <<>>
    ELSE IF a[1] = "." THEN <<>>
    ELSE <<a[1]>> \o FirstDotPart(Tail(a))

\* s[:-k] of Python, for 0 <= k <= len(s): s[:-0] is s[:0], the empty string.
DropLast(s, k) == IF k = 0 THEN <<>> ELSE SubSeq(s, 1, Len(s) - k)

\* s.startswith(p)
StartsWith(s, p) == Len(p) <= Len(s) /\ SubSeq(s, 1, Len(p)) = p

\* The test both substitution sites apply to a longer candidate name.
ExtendsTruncated(candidate, ap_name) ==
    /\ Len(candidate) > Len(ap_name)
    /\ StartsWith(candidate, DropLast(ap_name, Len(LastSegment(ap_name))))

\* The index of the first prompt line with a non-empty name, 0 if none.
FirstPrompt(c, i) ==
    LET Hit(j) == IsPrompt(c[j]) /\ PromptName(c[j]) # <<>>
    IN FirstIndex({n \in i..Len(c) : Hit(n)})

\* The index of the first "hostname: <name>" text, 0 if none.
FirstHostname(c, i) ==
    LET Hit(j) == IsHostname(c[j])
    IN FirstIndex({n \in i..Len(c) : Hit(n)})

\* The name on the first prompt line, as the transcript shows it.
ObservedName(c) ==
    IF FirstPrompt(c, 1) = 0 THEN <<>> ELSE PromptName(c[FirstPrompt(c, 1)])

\* GnssInfoParser._extract_ap_name
ExtractApName(c) ==
    LET p == FirstPrompt(c, 1)
        name == PromptName(c[p])
        suspected == HasHyphen(name) /\ Len(LastSegment(name)) <= 2
        h == FirstHostname(c, 1)
        full == HostnameOf(c[h])
        name2 == IF suspected /\ h # 0 /\ ExtendsTruncated(full, name)
                 THEN full ELSE name
    IN IF p = 0 THEN <<>>
       ELSE IF Len(name2) > MaxApNameLen THEN SubSeq(name2, 1, MaxApNameLen)
       ELSE name2

\* The host-name reconstruction of _extract_gnss_metrics (lines 102-115).
ReconstructApName(ap_name, address) ==
    IF ap_name # <<>> /\ address # <<>> /\ HasHyphen(ap_name)
       /\ Len(LastSegment(ap_name)) <= 2
       /\ ExtendsTruncated(FirstDotPart(address), ap_name)
    THEN FirstDotPart(address)
    ELSE ap_name

-----------------------------------------------------------------------------
(* Clock lines.  <<"*", text>> is a line "*<text>" and <<"*****", cmd>> is *)
(* a banner line "***** show <cmd> *****"; both fill their line.           *)

StarTok(text) == <<"*", text>>
BannerTok(cmd) == <<"*****", cmd>>
IsStar(t) == Len(t) = 2 /\ t[1] = "*"
IsBanner(t) == Len(t) = 2 /\ t[1] = "*****"

\* 'show clock\s*\n\s*\*([^\n]+)' matched with "show clock" on token i.
ClockPromptAt(c, i) ==
    /\ IsPrompt(c[i]) /\ PromptCmd(c[i]) = "clock"
    /\ i + 1 <= Len(c) /\ c[i + 1] = NL
    /\ NextTok(c, i) # 0
    /\ (IsStar(c[NextTok(c, i)]) \/ IsBanner(c[NextTok(c, i)]))

\* The text after the first "*" of a line that begins with "*".
AfterStar(t) == IF IsStar(t) THEN StrV(t[2]) ELSE <<"str", "**** show", t[2], "*****">>

\* GnssInfoParser._extract_show_clock_time; <<>> is the empty string.
ExtractShowClockTime(c) ==
    LET PromptHit(i) == ClockPromptAt(c, i)
        p == FirstIndex({n \in 1..Len(c) : PromptHit(n)})
        BannerHit(i) == /\ IsBanner(c[i]) /\ c[i][2] = "clock"
                        /\ \E j \in (i + 2)..Len(c) : IsBanner(c[j]) /\ c[j - 1] = NL
        b == FirstIndex({n \in 1..Len(c) : BannerHit(n)})
        EndHit(j) == j >= b + 2 /\ IsBanner(c[j]) /\ c[j - 1] = NL
        e == FirstIndex({n \in 1..Len(c) : EndHit(n)})
        StarHit(k) == k > b /\ k < e - 1 /\ IsStar(c[k]) /\ (k = b + 1 \/ c[k - 1] = NL)
        s == FirstIndex({n \in 1..Len(c) : StarHit(n)})
    IN IF p # 0 THEN AfterStar(c[NextTok(c, p)])
       ELSE IF b # 0 /\ s # 0 THEN StrV(c[s][2])
       ELSE <<>>

-----------------------------------------------------------------------------
(* Default sections (all declared fields)                                  *)

\* _get_default_main_metrics
DefaultMainMetrics ==
    [main_ap_name |-> Null, show_clock_time |-> Null]

\* _get_default_gnss_state_metrics
DefaultGnssStateMetrics ==
    [no_gnss_detected |-> FalseV, state |-> Null, external_antenna |-> Null,
     fix_type |-> Null, valid_fix |-> Null, gnss_fix_time |-> Null,
     last_fix_time |-> Null, latitude |-> Null, longitude |-> Null,
     horacc |-> Null, horacc_hdop |-> Null, altitude_msl |-> Null,
     altitude_hae |-> Null, vertacc |-> Null, numsat |-> Null,
     rangeres |-> Null, gpgstrms |-> Null, satellitecount |-> Null,
     uncertainty_ellipse_major_axis |-> Null,
     uncertainty_ellipse_minor_axis |-> Null,
     uncertainty_ellipse_orientation |-> Null,
     pdop |-> Null, hdop |-> Null, vdop |-> Null, ndop |-> Null,
     edop |-> Null, gdop |-> Null, tdop |-> Null]

LocationFixDefaults ==
    [not_available |-> FalseV, latitude |-> Null, longitude |-> Null,
     horacc |-> Null, horacc_hdop |-> Null,
     uncertainty_ellipse_major_axis |-> Null,
     uncertainty_ellipse_minor_axis |-> Null,
     uncertainty_ellipse_orientation |-> Null,
     altitude_msl |-> Null, altitude_hae |-> Null, vertacc |-> Null]

\* _get_default_gnss_postprocessor_metrics
DefaultGnssPostprocessorMetrics ==
    Put(LocationFixDefaults, "gnss_pp_parser_found", FalseV)

\* _get_default_cisco_gnss_metrics
DefaultCiscoGnssMetrics ==
    Put(LocationFixDefaults, "cisco_gnss_parser_found", FalseV)

\* _get_default_last_location_acquired_metrics
DefaultLastLocationAcquiredMetrics ==
    Put(Put(Put(LocationFixDefaults, "last_location_parser_found", FalseV),
            "derivation_type", Null), "derivation_time", Null)

\* _get_default_show_version_metrics
DefaultShowVersionMetrics ==
    [ver_ap_name |-> Null, ap_serial_number |-> Null, ap_model |-> Null,
     ap_image_family |-> Null, ap_image_string |-> Null,
     ap_running_image |-> Null, ap_uptime_days |-> Null,
     ap_uptime_hours |-> Null, ap_uptime_minutes |-> Null,
     last_reload_time |-> Null, last_reload_reason |-> Null,
     ethernet_mac_address |-> Null, cloud_id |-> Null]

\* _get_default_show_inventory_metrics
DefaultShowInventoryMetrics ==
    [inv_parser_found |-> FalseV, inv_ap_type |-> Null, inv_ap_descr |-> Null,
     inv_ap_pid |-> Null, inv_ap_vid |-> Null, inv_ap_serial |-> Null,
     inv_ap_devid |-> Null, inv_usb_detected |-> Null, inv_usb_status |-> Null,
     inv_usb_pid |-> Null, inv_usb_vid |-> Null, inv_usb_manuf |-> Null,
     inv_usb_descr |-> Null, inv_usb_serial |-> Null,
     inv_usb_max_power |-> Null]

-----------------------------------------------------------------------------
(* Field extraction                                                        *)

\* A captured text as a Python value.
StrC(cap) == <<"str">> \o cap
FloatC(cap) == <<"float">> \o cap
IntC(cap) == <<"int">> \o cap

\* float() / int() of a captured text: the beginning of a word that a numeric
\* class takes is a run of digits (PrefixWords), which always converts.
FloatOkCap(cap) == Len(cap) = 2 \/ FloatOk(cap[1])
IntOkCap(cap) == Len(cap) = 2 \/ IntOk(cap[1])

\* The value stored for a matched field of the given kind; a failed numeric
\* conversion inside try/except ValueError keeps the matched string.
Convert(kind, caps) ==
    CASE kind = "bool" -> BoolV(Lower(caps[1][1]) = "true")
      [] kind = "float" -> IF FloatOkCap(caps[1]) THEN FloatC(caps[1]) ELSE StrC(caps[1])
      [] kind = "int" -> IF IntOkCap(caps[1]) THEN IntC(caps[1]) ELSE StrC(caps[1])
      [] kind = "time" -> <<"str">> \o caps[1] \o caps[2]
      [] OTHER -> StrC(caps[1])

F(key, pat, kind) == [key |-> key, pat |-> pat, kind |-> kind]

\* "for key, pattern in ...: match = re.search(...); if match: metrics[key] = ..."
PutMatch(d, spec, m) ==
    IF m = NoMatch THEN d ELSE Put(d, spec.key, Convert(spec.kind, m))

RECURSIVE ApplyPatterns(_, _, _, _, _, _)
ApplyPatterns(c, from, to, specs, k, d) ==
    IF k > Len(specs) THEN d
    ELSE ApplyPatterns(c, from, to, specs, k + 1,
                       PutMatch(d, specs[k], SearchFrom(c, from, to, specs[k].pat)))

\* The "patterns" table of _extract_gnss_metrics (lines 152-169) with the
\* conversion each key gets in lines 205-220.
GnssStatePatterns ==
    << F("state", <<Lit("GnssState:"), Cap("word")>>, "str"),
       F("external_antenna", <<Lit("ExternalAntenna:"), Cap("bool")>>, "bool"),
       F("fix_type", <<Lit("Fix:"), Cap("nonspace")>>, "str"),
       F("valid_fix", <<Lit("ValidFix:"), Cap("bool")>>, "bool"),
       F("gnss_fix_time", <<Lit("Time:"), Cap("date"), Cap("clock")>>, "time"),
       F("latitude", <<Lit("Latitude:"), Cap("dashnum")>>, "float"),
       F("longitude", <<Lit("Longitude:"), Cap("dashnum")>>, "float"),
       F("horacc", <<Lit("HorAcc:"), Cap("dotnum")>>, "float"),
       F("altitude_msl", <<Lit("Altitude MSL:"), Cap("dotnum")>>, "float"),
       F("altitude_hae", <<Lit("HAE:"), Cap("dotnum")>>, "float"),
       F("vertacc", <<Lit("VertAcc:"), Cap("dotnum")>>, "float"),
       F("numsat", <<Lit("NumSat:"), Cap("digits")>>, "int"),
       F("rangeres", <<Lit("RangeRes:"), Cap("dotnum")>>, "float"),
       F("gpgstrms", <<Lit("GpGstRms:"), Cap("dotnum")>>, "float"),
       F("satellitecount", <<Lit("SatelliteCount:"), Cap("digits")>>, "int"),
       F("last_fix_time", <<Lit("LastFixTime:"), Cap("date"), Cap("clock")>>, "time") >>

\* uncertainty_pattern of _extract_gnss_metrics (line 172)
StateEllipsePattern ==
    << Lit("Uncertainty Ellipse:"), Lit("Major axis:"), Cap("dotnum"),
       Lit("Minor axis:"), Cap("dotnum"), Lit("Orientation:"), Cap("dotnum") >>

EllipseKeys ==
    << "uncertainty_ellipse_major_axis", "uncertainty_ellipse_minor_axis",
       "uncertainty_ellipse_orientation" >>

\* dop_pattern of _extract_gnss_metrics (line 181)
DopPattern ==
    << Lit("pDOP:"), Cap("dotnum"), Lit("hDOP:"), Cap("dotnum"),
       Lit("vDOP:"), Cap("dotnum"), Lit("nDOP:"), Cap("dotnum"),
       Lit("eDOP:"), Cap("dotnum"), Lit("gDOP:"), Cap("dotnum"),
       Lit("tDOP:"), Cap("dotnum") >>

DopKeys == << "pdop", "hdop", "vdop", "ndop", "edop", "gdop", "tdop" >>

\* horacc_hdop_pattern of _extract_gnss_metrics (line 194)
StateHorAccHdopPattern ==
    << Lit("HorAcc:"), Cls("dotnum"), Lit("hDOP:"), Cap("dotnum") >>

\* metrics[keys[j]] = float(match.group(j)) for every group, with no handler:
\* the assignments are made in order and the first float() that fails raises.
AllFloatOk(m) == m = NoMatch \/ \A j \in 1..Len(m) : FloatOkCap(m[j])

RECURSIVE PutFloats(_, _, _, _)
PutFloats(d, keys, m, j) ==
    IF m = NoMatch \/ j > Len(keys) THEN d
    ELSE PutFloats(Put(d, keys[j], FloatC(m[j])), keys, m, j + 1)

\* 'show gnss info\s*\n\s*No GNSS detected' with "show gnss info" on token i.
NoGnssAt(c, i) ==
    /\ IsPrompt(c[i]) /\ PromptCmd(c[i]) = "gnss info"
    /\ i + 1 <= Len(c) /\ c[i + 1] = NL
    /\ NextTok(c, i) # 0
    /\ IsWord(c[NextTok(c, i)])
    /\ Lower(c[NextTok(c, i)][1]) = "no gnss detected"

NoGnssDetected(c) == \E i \in 1..Len(c) : NoGnssAt(c, i)

\* content.find("GnssState:"), then the case-insensitive search; 0 if none.
GnssStateStart(c) ==
    LET Exact(i) == c[i] = W("GnssState:")
        AnyCase(i) == IsWord(c[i]) /\ Lower(c[i][1]) = "gnssstate:"
        e == FirstIndex({n \in 1..Len(c) : Exact(n)})
    IN IF e # 0 THEN e ELSE FirstIndex({n \in 1..Len(c) : AnyCase(n)})

\* The last token of the state section: the one before the first "Const."
\* at or after start, else the last token of the transcript.
StateSectionEnd(c, start) ==
    LET t == FindLabel(c, start, "Const.")
    IN IF t = 0 THEN Len(c) ELSE t - 1

PutIf(d, k, cond, v) == IF cond THEN Put(d, k, v) ELSE d

\* "main" of _extract_gnss_metrics (lines 93-120): the two values that are
\* stored when they are not empty.
MainMetrics(ap_name, clock) ==
    PutIf(PutIf(DefaultMainMetrics, "main_ap_name", ap_name # <<>>, NameV(ap_name)),
          "show_clock_time", clock # <<>>, clock)

\* No float() of the three unguarded multi-group patterns raises.
StateFloatsOk(c, start, to) ==
    /\ AllFloatOk(SearchFrom(c, start, to, StateEllipsePattern))
    /\ AllFloatOk(SearchFrom(c, start, to, DopPattern))
    /\ AllFloatOk(SearchFrom(c, start, to, StateHorAccHdopPattern))

\* The fields of the state section c[start..to] stored over gs0.
StateFields(c, start, to, gs0) ==
    ApplyPatterns(c, start, to, GnssStatePatterns, 1,
        PutFloats(
            PutFloats(
                PutFloats(gs0, EllipseKeys,
                          SearchFrom(c, start, to, StateEllipsePattern), 1),
                DopKeys, SearchFrom(c, start, to, DopPattern), 1),
            <<"horacc_hdop">>, SearchFrom(c, start, to, StateHorAccHdopPattern), 1))

StateSection(c, start, to, main, gs0) ==
    IF ~StateFloatsOk(c, start, to)
    THEN [raised |-> TRUE, main |-> main, gnss_state |-> gs0]
    ELSE [raised |-> FALSE, main |-> main,
          gnss_state |-> StateFields(c, start, to, gs0)]

GnssMetricsFrom(c, main, nogps, gs0, start) ==
    IF nogps \/ start = 0
    THEN [raised |-> FALSE, main |-> main, gnss_state |-> gs0]
    ELSE StateSection(c, start, StateSectionEnd(c, start), main, gs0)

GnssMetricsWith(c, main, nogps) ==
    GnssMetricsFrom(c, main, nogps,
                    Put(DefaultGnssStateMetrics, "no_gnss_detected", BoolV(nogps)),
                    GnssStateStart(c))

\* GnssInfoParser._extract_gnss_metrics: [raised, main, gnss_state]
ExtractGnssMetrics(c, address) ==
    GnssMetricsWith(c,
                    MainMetrics(ReconstructApName(ExtractApName(c), address),
                                ExtractShowClockTime(c)),
                    NoGnssDetected(c))

-----------------------------------------------------------------------------
(* LocationFix sections: GNSS_PostProcessor, CiscoGNSS, Last Location      *)
(* Acquired.  The three extractors share their code line for line.         *)

\* fields_to_extract of the three extractors (lines 649-655, 723-729, 797-803)
LocationFloatFields ==
    << F("latitude", <<Lit("Latitude:"), Cap("dashnum")>>, "float"),
       F("longitude", <<Lit("Longitude:"), Cap("dashnum")>>, "float"),
       F("altitude_msl", <<Lit("Altitude MSL:"), Cap("dotnum")>>, "float"),
       F("altitude_hae", <<Lit("HAE:"), Cap("dotnum")>>, "float"),
       F("vertacc", <<Lit("VertAcc:"), Cap("dotnum")>>, "float") >>

LocationHorAccPattern ==
    << Lit("HorAcc:"), Cap("dotnum"), Lit("hDOP:"), Cap("dotnum") >>

LocationEllipsePattern ==
    << Lit("Major axis:"), Cap("dotnum"), Lit("Minor axis:"), Cap("dotnum"),
       Lit("Orientation:"), Cap("dotnum") >>

\* "try: metrics[k] = conversion(match.group(1)) except (ValueError, TypeError): pass"
PutGuardedFloat(d, key, m) ==
    IF m # NoMatch /\ FloatOkCap(m[1]) THEN Put(d, key, FloatC(m[1])) ELSE d

RECURSIVE ApplyGuardedFloats(_, _, _, _, _, _)
ApplyGuardedFloats(c, from, to, specs, k, d) ==
    IF k > Len(specs) THEN d
    ELSE ApplyGuardedFloats(c, from, to, specs, k + 1,
             PutGuardedFloat(d, specs[k].key, SearchFrom(c, from, to, specs[k].pat)))

\* "try: metrics[k1] = float(g1); metrics[k2] = float(g2) ... except: pass":
\* the assignments before the first failing float() are kept.
RECURSIVE PutFloatsGuarded(_, _, _, _)
PutFloatsGuarded(d, keys, m, j) ==
    IF m = NoMatch \/ j > Len(keys) THEN d
    ELSE IF ~FloatOkCap(m[j]) THEN d
    ELSE PutFloatsGuarded(Put(d, keys[j], FloatC(m[j])), keys, m, j + 1)

\* The same search without re.IGNORECASE on the sentinel.
MarkerNotAvailable_CaseSensitive(c, marker) ==
    \E i \in 1..Len(c) :
        /\ IsWord(c[i]) /\ EndsWithLabel(c[i][1], marker)
        /\ NextTok(c, i) # 0
        /\ IsWord(c[NextTok(c, i)])
        /\ c[NextTok(c, i)][1] = "N/A"

\* re.search(marker + r'\s*N/A', content, re.IGNORECASE)
MarkerNotAvailable(c, marker) ==
    \E i \in 1..Len(c) :
        /\ IsWord(c[i]) /\ EndsWithLabel(c[i][1], marker)
        /\ NextTok(c, i) # 0
        /\ IsWord(c[NextTok(c, i)])
        /\ Lower(c[NextTok(c, i)][1]) = "n/a"

\* The last token of the section that starts at token start: the one before
\* the first "\n\n", else the last token of the transcript.
SectionEnd(c, start) ==
    LET b == FindBlankLine(c, start)
    IN IF b = 0 THEN Len(c) ELSE b - 1

\* The words of tokens j.. up to the end of the line of token j: "([^\n]+)".
RECURSIVE RestOfLine(_, _, _)
RestOfLine(c, j, to) ==
    IF j > to \/ j > Len(c) THEN <<>>
    ELSE IF c[j] = NL THEN <<>>
    ELSE c[j] \o RestOfLine(c, j + 1, to)

\* The fields of the section c[start..to] stored over found.
LocationFields(c, start, to, found) ==
    PutFloatsGuarded(
        PutFloatsGuarded(
            ApplyGuardedFloats(c, start, to, LocationFloatFields, 1, found),
            <<"horacc", "horacc_hdop">>,
            SearchFrom(c, start, to, LocationHorAccPattern), 1),
        EllipseKeys, SearchFrom(c, start, to, LocationEllipsePattern), 1)

\* The shared body without the early return of the "N/A" branch.
LocationFixAt_NoEarlyReturn(c, marker, start, found, defaults) ==
    IF start = 0 THEN defaults
    ELSE IF MarkerNotAvailable(c, marker)
    THEN Put(LocationFields(c, start, SectionEnd(c, start), found),
             "not_available", TrueV)
    ELSE LocationFields(c, start, SectionEnd(c, start), found)

\* The body shared by the three extractors, with the marker found at token
\* start (0 if it is absent).
LocationFixAt(c, marker, start, found, defaults) ==
    IF start = 0 THEN defaults
    ELSE IF MarkerNotAvailable(c, marker) THEN Put(found, "not_available", TrueV)
    ELSE LocationFields(c, start, SectionEnd(c, start), found)

ExtractLocationFix(c, marker, foundKey, defaults) ==
    LocationFixAt(c, marker, FindLabel(c, 1, marker),
                  Put(defaults, foundKey, TrueV), defaults)

\* GnssInfoParser._extract_gnss_postprocessor_metrics
ExtractGnssPostprocessorMetrics(c) ==
    ExtractLocationFix(c, "GNSS_PostProcessor:", "gnss_pp_parser_found",
                       DefaultGnssPostprocessorMetrics)

\* GnssInfoParser._extract_cisco_gnss_metrics
ExtractCiscoGnssMetrics(c) ==
    ExtractLocationFix(c, "CiscoGNSS:", "cisco_gnss_parser_found",
                       DefaultCiscoGnssMetrics)

\* "Derivation Type:\s*([^\n]+)" with the label on token ty (0 if absent)
\* and n the next token that is not a line break.
PutDerivationType(c, to, d, ty, n) ==
    IF ty = 0 \/ n = 0 THEN d
    ELSE IF RestOfLine(c, n, to) = <<>> THEN d
    ELSE Put(d, "derivation_type", <<"str">> \o RestOfLine(c, n, to))

PutDerivationTime(d, tm) ==
    IF tm # NoMatch THEN Put(d, "derivation_time", Convert("time", tm)) ELSE d

\* The two fields of lines 833-840 stored over base.
DerivationFields(c, start, to, base, ty) ==
    PutDerivationTime(
        PutDerivationType(c, to, base, ty, NextTokIn(c, ty, to)),
        SearchFrom(c, start, to, <<Lit("Time:"), Cap("date"), Cap("clock")>>))

LastLocationAt(c, marker, start, to, base) ==
    IF start = 0 \/ MarkerNotAvailable(c, marker) THEN base
    ELSE DerivationFields(c, start, to, base,
                          FindLabelIn(c, start, to, "Derivation Type:"))

LastLocationFrom(c, marker, start) ==
    LastLocationAt(c, marker, start, SectionEnd(c, start),
                   ExtractLocationFix(c, marker, "last_location_parser_found",
                                      DefaultLastLocationAcquiredMetrics))

\* GnssInfoParser._extract_last_location_acquired_metrics
ExtractLastLocationAcquiredMetrics(c) ==
    LastLocationFrom(c, "Last Location Acquired:",
                     FindLabel(c, 1, "Last Location Acquired:"))

-----------------------------------------------------------------------------
(* show version / show inventory.  <<"ver", kind>> and <<"inv", kind>> are *)
(* the recognised lines of the two outputs, one token per line shape; the  *)
(* value a line carries is named after its shape.                          *)

VerTok(kind) == <<"ver", kind>>
InvTok(kind) == <<"inv", kind>>

\* The index of the first prompt line after token i with the given name, 0 if none.
NextPromptOf(c, i, name) ==
    LET Hit(j) == j > i /\ IsPrompt(c[j]) /\ PromptName(c[j]) = name /\ c[j - 1] = NL
    IN FirstIndex({n \in 1..Len(c) : Hit(n)})

\* The index of the first banner line after token i that starts a line, 0 if none.
NextBanner(c, i) ==
    LET Hit(j) == j > i + 1 /\ IsBanner(c[j]) /\ c[j - 1] = NL
    IN FirstIndex({n \in 1..Len(c) : Hit(n)})

HasTok(c, from, to, t) == \E j \in from..to : j >= 1 /\ j <= Len(c) /\ c[j] = t

\* "if match: for each group: metrics[key] = group.strip()"
RECURSIVE PutLineFields(_, _, _, _, _, _)
PutLineFields(c, from, to, table, k, d) ==
    IF k > Len(table) THEN d
    ELSE PutLineFields(c, from, to, table, k + 1,
                       PutIf(d, table[k][2], HasTok(c, from, to, table[k][1]),
                             table[k][3]))

\* The assignments of _extract_show_version_metrics (lines 563-609).
VersionFieldTable ==
    << <<VerTok("uptime"), "ver_ap_name", StrV("uptime-name")>>,
       <<VerTok("uptime"), "ap_uptime_days", IntV("uptime-days")>>,
       <<VerTok("uptime"), "ap_uptime_hours", IntV("uptime-hours")>>,
       <<VerTok("uptime"), "ap_uptime_minutes", IntV("uptime-minutes")>>,
       <<VerTok("serial"), "ap_serial_number", StrV("serial")>>,
       <<VerTok("model"), "ap_model", StrV("model")>>,
       <<VerTok("running_image"), "ap_running_image", StrV("running_image")>>,
       <<VerTok("reload_time"), "last_reload_time", StrV("reload_time")>>,
       <<VerTok("mac"), "ethernet_mac_address", StrV("mac")>>,
       <<VerTok("cloud_id"), "cloud_id", StrV("cloud_id")>>,
       <<VerTok("image"), "ap_image_family", StrV("image-family")>>,
       <<VerTok("image"), "ap_image_string", StrV("image-string")>>,
       <<VerTok("reload_reason"), "last_reload_reason", StrV("reload_reason")>> >>

\* GnssInfoParser._extract_show_version_metrics
ExtractShowVersionMetrics(c) ==
    LET PromptHit(i) == /\ IsPrompt(c[i]) /\ PromptCmd(c[i]) = "version"
                        /\ PromptName(c[i]) # <<>>
                        /\ NextPromptOf(c, i, PromptName(c[i])) # 0
        p == FirstIndex({n \in 1..Len(c) : PromptHit(n)})
        BannerHit(i) == IsBanner(c[i]) /\ c[i][2] = "version" /\ NextBanner(c, i) # 0
        b == FirstIndex({n \in 1..Len(c) : BannerHit(n)})
        from == IF p # 0 THEN p ELSE b
        to == IF p # 0 THEN NextPromptOf(c, p, PromptName(c[p]))
              ELSE NextBanner(c, b) - 2
    IN IF p = 0 /\ b = 0 THEN DefaultShowVersionMetrics
       ELSE PutLineFields(c, from, to, VersionFieldTable, 1, DefaultShowVersionMetrics)

\* The assignments of _extract_show_inventory_metrics (lines 498-530).
InventoryFieldTable ==
    << <<InvTok("name_descr"), "inv_ap_type", StrV("name")>>,
       <<InvTok("name_descr"), "inv_ap_descr", StrV("descr")>>,
       <<InvTok("pid_vid_sn"), "inv_ap_pid", StrV("pid")>>,
       <<InvTok("pid_vid_sn"), "inv_ap_vid", StrV("vid")>>,
       <<InvTok("pid_vid_sn"), "inv_ap_serial", StrV("sn")>>,
       <<InvTok("devid"), "inv_ap_devid", StrV("devid")>>,
       <<InvTok("usb_detected"), "inv_usb_detected", StrV("usb_detected")>>,
       <<InvTok("usb_status"), "inv_usb_status", StrV("usb_status")>>,
       <<InvTok("usb_pid"), "inv_usb_pid", StrV("usb_pid")>>,
       <<InvTok("usb_vid"), "inv_usb_vid", StrV("usb_vid")>>,
       <<InvTok("usb_manuf"), "inv_usb_manuf", StrV("usb_manuf")>>,
       <<InvTok("usb_descr"), "inv_usb_descr", StrV("usb_descr")>>,
       <<InvTok("usb_serial"), "inv_usb_serial", StrV("usb_serial")>>,
       <<InvTok("usb_max_power"), "inv_usb_max_power", StrV("usb_max_power")>> >>

\* GnssInfoParser._extract_show_inventory_metrics.  The 2000 characters the
\* code takes when no later prompt follows reach the end of a transcript of
\* the sizes modelled here.
ExtractShowInventoryMetrics(c) ==
    LET PromptHit(i) == /\ IsPrompt(c[i]) /\ PromptCmd(c[i]) = "inventory"
                        /\ PromptName(c[i]) # <<>>
        p == FirstIndex({n \in 1..Len(c) : PromptHit(n)})
        BannerHit(i) == IsBanner(c[i]) /\ c[i][2] = "inventory"
        b == FirstIndex({n \in 1..Len(c) : BannerHit(n)})
        from == IF p # 0 THEN p + 1 ELSE b + 1
        np == NextPromptOf(c, p, PromptName(c[p]))
        nb == NextBanner(c, b)
        to == IF p # 0 THEN (IF np # 0 THEN np - 2 ELSE Len(c))
              ELSE (IF nb # 0 THEN nb - 2 ELSE Len(c))
        found == Put(DefaultShowInventoryMetrics, "inv_parser_found", TrueV)
    IN IF p = 0 /\ b = 0 THEN DefaultShowInventoryMetrics
       ELSE PutLineFields(c, from, to, InventoryFieldTable, 1, found)

-----------------------------------------------------------------------------
(* Satellite table                                                         *)

MaxTableLines == 50
MinSatelliteColumns == 5

\* re.split(r'\s+', w) of a word: labels with inner blanks are several parts.
SplitWord(w) ==
    CASE w = "Altitude MSL:" -> <<"Altitude", "MSL:">>
      [] w = "Uncertainty Ellipse:" -> <<"Uncertainty", "Ellipse:">>
      [] w = "Major axis:" -> <<"Major", "axis:">>
      [] w = "Minor axis:" -> <<"Minor", "axis:">>
      [] w = "Derivation Type:" -> <<"Derivation", "Type:">>
      [] w = "Last Location Acquired:" -> <<"Last", "Location", "Acquired:">>
      [] w = "No GNSS detected" -> <<"No", "GNSS", "detected">>
      [] OTHER -> <<w>>

\* The index of the first line break at or after token i, Len(c) + 1 if none.
LineEnd(c, i) ==
    LET Hit(j) == c[j] = NL
        e == FirstIndex({n \in i..Len(c) : Hit(n)})
    IN IF e = 0 THEN Len(c) + 1 ELSE e

\* The parts of the line made of tokens i..(e - 1); a token that is not a
\* word counts as one part, named by its head.
RECURSIVE LineParts(_, _, _)
LineParts(c, i, e) ==
    IF i >= e THEN <<>>
    ELSE (IF IsWord(c[i]) THEN SplitWord(c[i][1]) ELSE <<c[i][1]>>)
         \o LineParts(c, i + 1, e)

IsConstellationLine(parts) ==
    parts # <<>> /\ Lower(parts[1]) \in {"gps", "glonass", "galileo", "beidou"}

IsEndOfTable(parts) ==
    parts # <<>> /\ (parts[1] = "====" \/ \E j \in 1..Len(parts) : parts[j] = "example-")

\* The int / float / str conversion of a table cell (lines 878-887).
SatCell(part) ==
    IF part \in DigitWords THEN IntV(part)
    ELSE IF part \in DotNumWords /\ FloatOk(part) THEN FloatV(part)
    ELSE StrV(part)

\* satellite[headers[j].lower()] = cell j, for j < min(len(parts), len(headers))
RECURSIVE SatFields(_, _, _, _)
SatFields(sat, parts, headers, j) ==
    IF j > Len(parts) \/ j > Len(headers) THEN sat
    ELSE SatFields(Put(sat, Lower(headers[j]), SatCell(parts[j])), parts, headers, j + 1)

\* The loop over table_lines[1..]: token i starts line lineNo.
RECURSIVE SatScan(_, _, _, _)
SatScan(c, i, lineNo, headers) ==
    IF lineNo >= MaxTableLines \/ i > Len(c) + 1 THEN <<>>
    ELSE LET e == LineEnd(c, i)
             parts == LineParts(c, i, e)
             sat == SatFields([constellation |-> StrV(parts[1])], parts, headers, 2)
         IN IF IsConstellationLine(parts)
            THEN (IF Len(parts) >= MinSatelliteColumns THEN <<sat>> ELSE <<>>)
                 \o SatScan(c, e + 1, lineNo + 1, headers)
            ELSE IF IsEndOfTable(parts) THEN <<>>
            ELSE SatScan(c, e + 1, lineNo + 1, headers)

\* GnssInfoParser._extract_satellite_data
ExtractSatelliteData(c) ==
    LET t == FindLabel(c, 1, "Const.")
        e == LineEnd(c, t)
    IN IF t = 0 THEN <<>>
       ELSE SatScan(c, e + 1, 1, LineParts(c, t, e))

-----------------------------------------------------------------------------
(* Raw key/value pairs.  kv_pattern is read over tokens: a key is a run of *)
(* plain words that ends with a label, a value is a numeric word or a run  *)
(* of alphanumeric words.  A run of value words also takes the words of    *)
(* the label that follows it, which then starts no entry of its own.       *)

IsPlainWord(t) == IsWord(t) /\ t[1] \in AlnumWords \cup {"GNSS_Receiver"}
IsLabel(t) == IsWord(t) /\ t[1] \in LabelWords
IsAlnumWord(t) == IsWord(t) /\ t[1] \in AlnumWords

\* The index of the label that ends the key run starting at token i, 0 if none.
RECURSIVE KeyEnd(_, _, _)
KeyEnd(c, i, first) ==
    IF i > Len(c) THEN 0
    ELSE IF IsLabel(c[i]) THEN i
    ELSE IF IsPlainWord(c[i]) \/ (c[i] = NL /\ ~first) THEN KeyEnd(c, i + 1, FALSE)
    ELSE 0

\* The index of the last token of the value run that starts at token v.
RECURSIVE ValueEnd(_, _)
ValueEnd(c, v) ==
    LET n == NextTok(c, v)
    IN IF n = 0 THEN v
       ELSE IF IsLabel(c[n]) THEN n
       ELSE IF IsAlnumWord(c[n]) THEN ValueEnd(c, n)
       ELSE v

RECURSIVE Words(_, _, _)
Words(c, i, j) ==
    IF i > j THEN <<>>
    ELSE (IF c[i] = NL THEN <<>> ELSE <<Lower(c[i][1])>>) \o Words(c, i + 1, j)

\* The words of the vocabulary with a "." in them.
DottedWords == {"41.1", "0.9", "1.2.3", "-7.5"}

\* The typed value of a match (lines 915-924).
RawValue(c, v, e) ==
    IF v = e /\ Lower(c[v][1]) \in {"true", "false"} THEN BoolV(Lower(c[v][1]) = "true")
    ELSE IF v = e /\ c[v][1] \in DottedWords
         THEN (IF FloatOk(c[v][1]) THEN FloatV(c[v][1]) ELSE StrV(c[v][1]))
    ELSE IF v = e /\ IntOk(c[v][1]) THEN IntV(c[v][1])
    ELSE <<"str">> \o Words(c, v, e)

\* kv_pattern matches with its key starting on token i.
RawMatchAt(c, i) ==
    LET j == KeyEnd(c, i, TRUE)
        v == IF j = 0 THEN 0 ELSE NextTok(c, j)
    IN v # 0 /\ IsWord(c[v]) /\ (c[v][1] \in DashNumWords \/ IsAlnumWord(c[v]))

\* re.finditer(kv_pattern, content) from token i on, into dict d; starts is
\* the set of tokens where kv_pattern matches.
RECURSIVE RawScan(_, _, _, _)
RawScan(c, starts, i, d) ==
    LET Hit(k) == k \in starts
        s == FirstIndex({n \in i..Len(c) : Hit(n)})
        j == KeyEnd(c, s, TRUE)
        v == NextTok(c, j)
        e == IF c[v][1] \in DashNumWords THEN v ELSE ValueEnd(c, v)
    IN IF s = 0 THEN d
       ELSE RawScan(c, starts, e + 1, Put(d, Words(c, s, j), RawValue(c, v, e)))

\* GnssInfoParser._extract_raw_data
ExtractRawData(c) ==
    RawScan(c, {k \in 1..Len(c) : RawMatchAt(c, k)}, 1, <<>>)

-----------------------------------------------------------------------------
(* Records: a Python dict with its insertion order, [keys, val]            *)

EmptyDict == [keys |-> <<>>, val |-> <<>>]

InSeq(x, q) == \E i \in 1..Len(q) : q[i] = x

\* d[k] = v on an ordered dict
DictSet(d, k, v) ==
    [keys |-> IF InSeq(k, d.keys) THEN d.keys ELSE Append(d.keys, k),
     val |-> Put(d.val, k, v)]

\* del d[k]
DictDel(d, k) ==
    [keys |-> SelectSeq(d.keys, LAMBDA x : x # k),
     val |-> [x \in (DOMAIN d.val) \ {k} |-> d.val[x]]]

RecordOrder ==
    << "metadata", "main", "show_version", "show_inventory", "gnss_state",
       "gnss_postprocessor", "cisco_gnss", "last_location_acquired",
       "satellites", "raw_data" >>

\* BaseParser.reorder_json
ReorderJson(data, order) ==
    [keys |-> SelectSeq(order, LAMBDA k : InSeq(k, data.keys))
              \o SelectSeq(data.keys, LAMBDA k : ~InSeq(k, order)),
     val |-> data.val]

\* The sections parse stores whatever the transcript holds (lines 37-52).
SectionsOf(c, g) ==
    DictSet(
     DictSet(
      DictSet(
       DictSet(
        DictSet(
         DictSet(
          DictSet(
           DictSet(DictSet(EmptyDict, "raw_data", <<>>), "satellites", <<>>),
           "main", g.main),
          "show_version", ExtractShowVersionMetrics(c)),
         "gnss_state", g.gnss_state),
        "gnss_postprocessor", ExtractGnssPostprocessorMetrics(c)),
       "cisco_gnss", ExtractCiscoGnssMetrics(c)),
      "last_location_acquired", ExtractLastLocationAcquiredMetrics(c)),
     "show_inventory", ExtractShowInventoryMetrics(c))

\* Lines 57 and 60: the satellite table and the raw key/value pairs.
WithSatellites(r, c) ==
    DictSet(DictSet(r, "satellites", ExtractSatelliteData(c)),
            "raw_data", ExtractRawData(c))

\* "if not no_gnss_detected:" of line 55.
UnlessNoGnss(r, c, nogps) == IF nogps THEN r ELSE WithSatellites(r, c)

\* parse without the "if not no_gnss_detected" guard of lines 55-60.
ParseFrom_NoSkip(c, g) ==
    IF g.raised THEN [raised |-> TRUE, record |-> EmptyDict]
    ELSE [raised |-> FALSE,
          record |-> ReorderJson(WithSatellites(SectionsOf(c, g), c), RecordOrder)]

\* parse with g the result of _extract_gnss_metrics: [raised, record]
ParseFrom(c, g) ==
    IF g.raised THEN [raised |-> TRUE, record |-> EmptyDict]
    ELSE [raised |-> FALSE,
          record |-> ReorderJson(
                         UnlessNoGnss(SectionsOf(c, g), c,
                                      g.gnss_state["no_gnss_detected"] = TrueV),
                         RecordOrder)]

\* GnssInfoParser.parse: [raised, record]
ParseContent(c, address) == ParseFrom(c, ExtractGnssMetrics(c, address))

-----------------------------------------------------------------------------
(* Transcripts                                                             *)

Seqs(S, n) == UNION { [1..k -> S] : k \in 0..n }

NameChars == {"a", "-"}
AddrChars == {"a", "-", "."}

\* A name longer than the 32 characters the parser keeps.
LongName ==
    << "a", "a", "a", "a", "a", "a", "a", "a", "a", "a", "a", "a", "a", "a",
       "a", "a", "a", "a", "a", "a", "a", "a", "a", "a", "a", "a", "a", "a",
       "a", "a", "a", "a", "a" >>

PromptNames == (Seqs(NameChars, MaxNameLen) \ {<<>>}) \cup {LongName}
Addresses == Seqs(AddrChars, MaxAddrLen)

\* Transcripts of one prompt line, with or without a "hostname: ..." text.
NameTranscripts ==
    { <<PromptTok(n, "gnss info"), NL>> \o h :
        n \in PromptNames,
        h \in { <<>>, <<HostnameTok(<<"a", "-", "a", "a", "a">>), NL>> } }

ApName == <<"a", "p">>
BlankLine == <<NL>>

ClockBlocks ==
    { <<PromptTok(ApName, "clock"), NL, StarTok("10:00:00 UTC"), NL>>,
      <<BannerTok("clock"), NL, StarTok("10:00:00 UTC"), NL, BannerTok("gnss info"), NL>> }

FullState ==
    << W("GnssState:"), W("Started"), NL,
       W("ExternalAntenna:"), W("false"), NL,
       W("Fix:"), W("3D-Fix"), W("ValidFix:"), W("true"), NL,
       W("Time:"), W("2025-01-01"), W("10:00:00"), NL,
       W("Latitude:"), W("41.1"), W("Longitude:"), W("-7.5"), NL,
       W("HorAcc:"), W("0.9"), W("hDOP:"), W("0.9"), NL,
       W("Altitude MSL:"), W("41.1"), W("HAE:"), W("41.1"), W("VertAcc:"), W("0.9"), NL,
       W("Uncertainty Ellipse:"), W("Major axis:"), W("0.9"), W("Minor axis:"), W("0.9"),
       W("Orientation:"), W("12"), NL,
       W("NumSat:"), W("12"), W("RangeRes:"), W("0.9"), W("GpGstRms:"), W("0.9"), NL,
       W("pDOP:"), W("0.9"), W("hDOP:"), W("0.9"), W("vDOP:"), W("0.9"), W("nDOP:"), W("0.9"),
       W("eDOP:"), W("0.9"), W("gDOP:"), W("0.9"), W("tDOP:"), W("0.9"), NL,
       W("SatelliteCount:"), W("12"), W("LastFixTime:"), W("2025-01-01"), W("10:00:00"), NL >>

StateBlocks ==
    { <<>>,
      <<W("No GNSS detected"), NL>>,
      FullState,
      <<W("gnssstate:"), W("Started"), NL, W("Latitude:"), W("1.2.3"), W("NumSat:"), W("N/A"), NL>>,
      <<W("GnssState:"), W("Started"), NL, W("HorAcc:"), W("0.9"), W("hDOP:"), W("1.2.3"), NL>> }

TableHeader ==
    << W("Const."), W("SatId"), W("CNO"), W("Elev."), W("Azim."), W("Signal"),
       W("Used"), W("Health"), NL >>

TableRows ==
    { <<W("GPS"), W("12"), W("41.1"), W("12"), W("0"), W("L1"), W("Yes"), W("Good"), NL>>,
      <<W("GLONASS"), W("0"), W("0"), W("0"), W("12"), W("L1"), W("No"), W("Good"), NL>>,
      <<W("Galileo"), W("12"), W("1.2.3"), NL>>,
      <<W("BeiDou"), W("12"), W("41.1"), W("example-"), W("0"), NL>> }

RECURSIVE Flatten(_)
Flatten(q) == IF q = <<>> THEN <<>> ELSE Head(q) \o Flatten(Tail(q))

TableBlocks ==
    { <<>> } \cup { TableHeader \o Flatten(rows) \o <<W("===="), NL>> :
                      rows \in Seqs(TableRows, MaxRows) }

OneTable ==
    TableHeader
    \o <<W("GPS"), W("12"), W("41.1"), W("12"), W("0"), W("L1"), W("Yes"), W("Good"), NL>>

LocationData ==
    << W("Latitude:"), W("41.1"), W("Longitude:"), W("-7.5"), NL,
       W("HorAcc:"), W("0.9"), W("hDOP:"), W("0.9"), NL,
       W("Major axis:"), W("0.9"), W("Minor axis:"), W("0.9"), W("Orientation:"), W("12"), NL,
       W("Altitude MSL:"), W("41.1"), W("HAE:"), W("41.1"), W("VertAcc:"), W("0.9"), NL >>

\* The variants of a LocationFix block under the given marker.
LocationBlocks(marker) ==
    { <<>>,
      <<W(marker), W("N/A"), NL>>,
      <<W(marker), NL, W("n/a"), NL, W("Latitude:"), W("41.1"), NL>>,
      <<W(marker), NL>> \o LocationData,
      <<W(marker), NL, W("Latitude:"), W("1.2.3"), NL, NL, W("Longitude:"), W("41.1"), NL>>,
      <<W(marker), NL, W("HorAcc:"), W("0.9"), W("hDOP:"), W("1.2.3"), NL,
        W("Major axis:"), W("0.9"), W("Minor axis:"), W("1.2.3"),
        W("Orientation:"), W("12"), NL>> }

LastLocationBlocks ==
    LocationBlocks("Last Location Acquired:")
    \cup { <<W("Last Location Acquired:"), NL>> \o LocationData
           \o <<W("Derivation Type:"), W("GNSS_Receiver"), W("Time:"),
                W("2025-01-01"), W("10:00:00"), NL>> }

VersionBlocks ==
    { <<>>,
      <<PromptTok(ApName, "version"), NL, VerTok("image"), NL, VerTok("uptime"), NL,
        VerTok("serial"), NL, VerTok("reload_reason"), NL, PromptTok(ApName, "inventory"), NL,
        InvTok("name_descr"), NL, InvTok("pid_vid_sn"), NL, InvTok("usb_detected"), NL>>,
      <<BannerTok("version"), NL, VerTok("model"), NL, VerTok("mac"), NL,
        BannerTok("inventory"), NL, InvTok("devid"), NL>> }

\* What comes before and after "show gnss info": both written by the same
\* tool, with prompts or with banners.
Envelopes ==
    { env \in ClockBlocks \X VersionBlocks :
        IsPrompt(env[1][1]) <=> (env[2] = <<>> \/ IsPrompt(env[2][1])) }

\* Transcripts laid out as the collector records them: the commands in
\* order, with the sections of "show gnss info" one after the other.
SectionTranscripts ==
    { env[1] \o <<PromptTok(ApName, "gnss info"), NL>> \o st \o tb
          \o BlankLine \o pp \o BlankLine \o cg \o BlankLine \o ll \o env[2] :
        env \in Envelopes, st \in StateBlocks, tb \in {<<>>, OneTable},
        pp \in { <<>>, <<W("GNSS_PostProcessor:"), W("N/A"), NL>>,
                 <<W("GNSS_PostProcessor:"), NL>> \o LocationData },
        cg \in LocationBlocks("CiscoGNSS:"),
        ll \in LastLocationBlocks }

\* A table with more rows than the scan reads.
LongTable ==
    TableHeader
    \o Flatten([ i \in 1..(MaxTableLines + 1) |->
                   <<W("GPS"), W("12"), W("41.1"), W("12"), W("0"), W("L1"),
                     W("Yes"), W("Good"), NL>> ])

\* Transcripts with every table of up to MaxRows rows, and the long table.
TableTranscripts ==
    { <<PromptTok(ApName, "gnss info"), NL>> \o st \o tb :
        st \in StateBlocks, tb \in TableBlocks \cup {LongTable} }

\* Every arrangement of a few words, labels and line breaks.
FreeTokens ==
    { NL, W("GnssState:"), W("Latitude:"), W("41.1"), W("1.2.3"),
      W("CiscoGNSS:"), W("N/A"), W("n/a"), W("HorAcc:"), W("hDOP:"),
      W("Const."), W("GPS") }

FreeTranscripts == Seqs(FreeTokens, MaxLen)

ParseTimes == {"t1", "t2"}

-----------------------------------------------------------------------------
(* The parser and the assembler of the collector                           *)

\* A destination is its header, its data rows and whether its last line
\* ends with a line terminator.  No destination file, the file of zero
\* bytes, a file whose first line gives no columns (an empty line, or bytes
\* that do not decode) with a line after it, and a file with a header and a
\* row whose last line has no line terminator.
NoFile == [exists |-> FALSE, header |-> <<>>, rows |-> <<>>, terminated |-> TRUE]
EmptyFile == [exists |-> TRUE, header |-> <<>>, rows |-> <<>>, terminated |-> TRUE]
HeaderlessFile ==
    [exists |-> TRUE, header |-> <<>>, rows |-> << <<"x">> >>, terminated |-> TRUE]
UnterminatedFile ==
    [exists |-> TRUE, header |-> <<"main_main_ap_name">>, rows |-> << <<"ap9">> >>,
     terminated |-> FALSE]

\* The exporter before its first call, with the destination f; dest_before
\* is the destination as the last call found it.
CsvIdleWith(f) ==
    /\ batch = <<>>
    /\ append_mode = FALSE
    /\ csvfile = f
    /\ dest_before = f
    /\ exp_result = "none"
    /\ exports = 0

CsvIdle == CsvIdleWith(NoFile)

\* The collector has not been started.
CollectorIdle ==
    /\ ap_list = <<>>
    /\ concurrent = 1
    /\ csv_enabled = FALSE
    /\ main_pc = "idle"
    /\ next_index = 1
    /\ threads = <<>>
    /\ active_threads = 0
    /\ worker = <<>>
    /\ results = <<>>
    /\ csv_exports = 0

\* CapwapConfigParser.parse has been given no transcript.
CapwapIdle ==
    /\ capwap_section = <<>>
    /\ capwap_config = [parsed |-> FALSE, config |-> <<>>]

\* parse_text of lib/parser.py has been given no text.
TextIdle ==
    /\ input_text = <<>>
    /\ text_result = [parsed |-> FALSE, fields |-> <<>>]

Init ==
    /\ \/ content \in NameTranscripts /\ ap_address \in Addresses
       \/ content \in SectionTranscripts \cup TableTranscripts
          /\ ap_address = <<"a", "p", ".", "x">>
       \/ content \in FreeTranscripts /\ ap_address = <<>>
    /\ pstate = "input"
    /\ rec = EmptyDict
    /\ include_raw = FALSE
    /\ CsvIdle
    /\ TextIdle
    /\ CapwapIdle
    /\ CollectorIdle

\* The outcome of a call of parse: an exception, or the record returned.
ParseOutcome(r) ==
    /\ pstate' = IF r.raised THEN "raised" ELSE "returned"
    /\ rec' = r.record

\* gnss_parser.parse(full_output, ap_address)
Parse ==
    /\ pstate = "input"
    /\ ParseOutcome(ParseContent(content, ap_address))
    /\ UNCHANGED <<content, ap_address, include_raw>>
    /\ UNCHANGED csvVars
    /\ UNCHANGED textVars
    /\ UNCHANGED capwapVars
    /\ UNCHANGED collectorVars

\* The metadata of run_ap_commands (lines 545-552).
CollectorMetadata(time, address) ==
    [gnss_parser_version |-> StrV("1.3.0"),
     capwap_parser_version |-> StrV("2.0.0"),
     parse_time |-> StrV(time),
     collection_method |-> StrV("ssh"),
     ap_address |-> NameV(address),
     collector_timestamp |-> StrV("timestamp")]

\* "ordered_data = OrderedDict([("metadata", ...)]); for key, value in ..."
MetadataFirst(d) ==
    [keys |-> <<"metadata">> \o SelectSeq(d.keys, LAMBDA k : k # "metadata"),
     val |-> d.val]

\* The record run_ap_commands writes (lines 538-564).  A transcript without
\* the output of "show capwap client configuration" gives the CAPWAP parser
\* an empty section, and it returns {"show_capwap_client_config": {}}.
AssembleRecord(parsed, time, address, raw) ==
    LET merged == DictSet(parsed, "show_capwap_client_config", <<>>)
        withMeta == DictSet(merged, "metadata", CollectorMetadata(time, address))
        ordered == MetadataFirst(withMeta)
    IN IF ~raw /\ InSeq("raw_data", ordered.keys)
       THEN DictDel(ordered, "raw_data") ELSE ordered

Assemble ==
    /\ pstate = "returned"
    /\ \E raw \in BOOLEAN, time \in ParseTimes :
          /\ rec' = AssembleRecord(rec, time, ap_address, raw)
          /\ include_raw' = raw
    /\ pstate' = "assembled"
    /\ UNCHANGED <<content, ap_address>>
    /\ UNCHANGED csvVars
    /\ UNCHANGED textVars
    /\ UNCHANGED capwapVars
    /\ UNCHANGED collectorVars

\* The files given to the parser test CLI: the base name of the file, the
\* name utils.get_ap_name_from_filename finds in it and the time stamp
\* utils.parse_timestamp_from_filename finds in it (Null: none).
InputFiles ==
    { [name |-> "20250421-101648-putty-example-outdoor-ap1.txt",
       ap_name |-> StrV("outdoor-ap1"), timestamp |-> StrV("2025-04-21T10:16:48")],
      [name |-> "capture.txt", ap_name |-> Null, timestamp |-> Null] }

\* The metadata of the parser test CLI (test_parser.py lines 61-66, 75-77).
TestCliMetadata(time, file) ==
    PutIf([parser_version |-> StrV("1.3.0"),
           parse_time |-> StrV(time),
           input_file |-> StrV(file.name),
           file_size |-> IntV("36")],
          "file_timestamp", file.timestamp # Null, file.timestamp)

\* "if parsed_data["main"]["main_ap_name"] is None: ..." (lines 69-72)
NameFromFile(main, file) ==
    IF main["main_ap_name"] = Null /\ file.ap_name # Null
    THEN Put(main, "main_ap_name", file.ap_name) ELSE main

\* The record the parser test CLI serializes (test_parser.py lines 57-102):
\* the dict parse returned with the key "metadata" assigned to it.
TestCliRecord(parsed, time, file) ==
    DictSet(DictSet(parsed, "main", NameFromFile(parsed.val["main"], file)),
            "metadata", TestCliMetadata(time, file))

\* main of test_parser.py on one file; it calls parser.parse(content) without
\* an address and has no option that asks for raw data.
AssembleTestCli ==
    /\ pstate = "returned"
    /\ ap_address = <<>>
    /\ \E time \in ParseTimes, file \in InputFiles :
          rec' = TestCliRecord(rec, time, file)
    /\ pstate' = "printed"
    /\ UNCHANGED <<content, ap_address, include_raw>>
    /\ UNCHANGED csvVars
    /\ UNCHANGED textVars
    /\ UNCHANGED capwapVars
    /\ UNCHANGED collectorVars

Next == Parse \/ Assemble \/ AssembleTestCli

Spec == Init /\ [][Next]_vars

-----------------------------------------------------------------------------
(* The CSV exporter.  The data handed to export_gnss_data_to_csv is a list *)
(* of records; a record is a function from section names to values.  A    *)
(* dict is <<"dict", f>> with f a function from keys to values, a list is  *)
(* <<"list", q>>, an int is <<"num", n>> and a float is <<"flt", h>> with  *)
(* h its value in hundredths.  Column names and cell texts are strings.    *)
(* The destination file is [exists, header, rows]: the column names of its *)
(* first line and the cell texts of every later line; a file without a     *)
(* readable first line has the empty header.  The directory of the file    *)
(* exists and is writable.                                                 *)

NumV(n) == <<"num", n>>
FltV(h) == <<"flt", h>>
DictV(f) == <<"dict", f>>
ListV(q) == <<"list", q>>
IsDict(v) == v[1] = "dict"
IsList(v) == v[1] = "list"
Range(q) == { q[i] : i \in 1..Len(q) }

\* d.get(k, default)
Get(d, k, default) == IF k \in DOMAIN d THEN d[k] ELSE default

\* The printable ASCII characters in code-point order, from " " (32) to "~"
\* (126); the quotation mark, the backslash and the grave accent, which no
\* name here holds, are written out.
Ascii ==
    << " ", "!", "quotation mark", "#", "$", "%", "&", "'", "(", ")", "*",
       "+", ",", "-", ".", "/", "0", "1", "2", "3", "4", "5", "6", "7", "8",
       "9", ":", ";", "<", "=", ">", "?", "@", "A", "B", "C", "D", "E", "F",
       "G", "H", "I", "J", "K", "L", "M", "N", "O", "P", "Q", "R", "S",
       "T", "U", "V", "W", "X", "Y", "Z", "[", "backslash", "]", "^", "_",
       "grave accent", "a", "b", "c", "d", "e", "f", "g", "h", "i", "j", "k", "l", "m",
       "n", "o", "p", "q", "r", "s", "t", "u", "v", "w", "x", "y", "z",
       "{", "|", "}", "~" >>

\* ord(ch)
CodePoint(ch) == 31 + CHOOSE i \in 1..Len(Ascii) : Ascii[i] = ch

\* s.lower(), character by character
RECURSIVE StrLower(_)
StrLower(s) ==
    IF s = "" THEN ""
    ELSE (IF CodePoint(Head(s)) \in 65..90
          THEN Ascii[CodePoint(Head(s)) + 1] ELSE Head(s)) \o StrLower(Tail(s))

\* a < b of two Python strings
RECURSIVE LexLess(_, _)
LexLess(a, b) ==
    IF b = "" THEN FALSE
    ELSE IF a = "" THEN TRUE
    ELSE IF Head(a) = Head(b) THEN LexLess(Tail(a), Tail(b))
    ELSE CodePoint(Head(a)) < CodePoint(Head(b))

\* The sorted list q with the string x put in its place.
Insert(q, x) ==
    LET k == Cardinality({ i \in 1..Len(q) : LexLess(q[i], x) })
    IN SubSeq(q, 1, k) \o <<x>> \o SubSeq(q, k + 1, Len(q))

\* sorted(list(names)) of a set of strings
RECURSIVE SortedInto(_, _)
SortedInto(q, names) ==
    IF names = {} THEN q
    ELSE LET x == CHOOSE x \in names : TRUE
         IN SortedInto(Insert(q, x), names \ {x})

Sorted(names) == SortedInto(<<>>, names)

Digits == << "0", "1", "2", "3", "4", "5", "6", "7", "8", "9" >>

\* str(n) of an int
RECURSIVE IntToStr(_)
IntToStr(n) ==
    IF n < 0 THEN "-" \o IntToStr(-n)
    ELSE IF n < 10 THEN Digits[n + 1]
    ELSE IntToStr(n \div 10) \o Digits[(n % 10) + 1]

\* str(x) of a float of h hundredths: "35.0", "10.17", "-0.5"
FloatToStr(h) ==
    LET a == IF h < 0 THEN -h ELSE h
        f == a % 100
    IN (IF h < 0 THEN "-" ELSE "") \o IntToStr(a \div 100) \o "."
       \o (IF f % 10 = 0 THEN Digits[(f \div 10) + 1]
           ELSE Digits[(f \div 10) + 1] \o Digits[(f % 10) + 1])

\* str(value)
PyStr(v) ==
    CASE v[1] = "null" -> "None"
      [] v[1] = "bool" -> IF v = TrueV THEN "True" ELSE "False"
      [] v[1] = "num" -> IntToStr(v[2])
      [] v[1] = "flt" -> FloatToStr(v[2])
      [] OTHER -> v[2]

\* value.replace of a line feed and of a carriage return by a space
RECURSIVE ReplaceBreaks(_)
ReplaceBreaks(s) ==
    IF s = "" THEN ""
    ELSE (IF Head(s) \in {"\n", "\r"} THEN " " ELSE Head(s)) \o ReplaceBreaks(Tail(s))

\* s.strip()
RECURSIVE Strip(_)
Strip(s) ==
    IF s = "" THEN ""
    ELSE IF Head(s) \in {" ", "\n", "\r", "\t"} THEN Strip(Tail(s))
    ELSE IF SubSeq(s, Len(s), Len(s)) \in {" ", "\n", "\r", "\t"}
    THEN Strip(SubSeq(s, 1, Len(s) - 1))
    ELSE s

\* _format_csv_value
FormatCsvValue(v) ==
    CASE v[1] = "null" -> ""
      [] v[1] = "bool" -> StrLower(PyStr(v))
      [] v[1] = "str" -> Strip(ReplaceBreaks(v[2]))
      [] OTHER -> PyStr(v)

\* sat.get("constellation", "unknown").lower()
ConstellationOf(sat) == StrLower(Get(sat, "constellation", StrV("unknown"))[2])

\* _get_satellite_column_names
GetSatelliteColumnNames(satellites) ==
    { "satellites_total_count", "satellites_used_count", "satellites_unused_count",
      "satellites_snr_min", "satellites_snr_max", "satellites_snr_avg",
      "satellites_snr_median", "satellites_elevation_min",
      "satellites_elevation_max", "satellites_elevation_avg",
      "satellites_elevation_median" }
    \cup UNION { { "satellites_" \o ConstellationOf(satellites[i]) \o suffix :
                     suffix \in {"_total", "_used", "_unused"} } :
                 i \in 1..Len(satellites) }

\* slot.get("configuration", {})
SlotConfiguration(slot) == Get(slot, "configuration", DictV(<<>>))[2]

\* f"{parent_prefix}_slot{slot_num}_{key}"
SlotColumn(parent_prefix, slot, key) ==
    parent_prefix \o "_slot" \o PyStr(Get(slot, "slot_number", NumV(0))) \o "_" \o key

\* The same columns without the count of the slots.
ExtractSlotsColumnNames_NoCount(slots, parent_prefix) ==
    UNION { { SlotColumn(parent_prefix, slots[i], key) :
                key \in DOMAIN SlotConfiguration(slots[i]) } :
            i \in 1..Len(slots) }

\* _extract_slots_column_names
ExtractSlotsColumnNames(slots, parent_prefix) ==
    { parent_prefix \o "_slots_count" }
    \cup UNION { { SlotColumn(parent_prefix, slots[i], key) :
                     key \in DOMAIN SlotConfiguration(slots[i]) } :
                 i \in 1..Len(slots) }

\* The same columns without those of the raw key/value pairs.
SectionColumnNames_NoRawData(section_name, section_data) ==
    IF section_name = "satellites" THEN GetSatelliteColumnNames(section_data[2])
    ELSE IF section_name = "raw_data" THEN {}
    ELSE IF IsDict(section_data)
    THEN UNION { IF IsList(section_data[2][key]) /\ key = "slots"
                 THEN ExtractSlotsColumnNames(section_data[2][key][2], section_name)
                 ELSE { section_name \o "_" \o key } :
                 key \in DOMAIN section_data[2] }
    ELSE { section_name }

\* The columns one section of a record contributes (lines 233-255).
SectionColumnNames(section_name, section_data) ==
    IF section_name = "satellites" THEN GetSatelliteColumnNames(section_data[2])
    ELSE IF section_name = "raw_data"
    THEN (IF IsDict(section_data)
          THEN { "raw_" \o key : key \in DOMAIN section_data[2] } ELSE {})
    ELSE IF IsDict(section_data)
    THEN UNION { IF IsList(section_data[2][key]) /\ key = "slots"
                 THEN ExtractSlotsColumnNames(section_data[2][key][2], section_name)
                 ELSE { section_name \o "_" \o key } :
                 key \in DOMAIN section_data[2] }
    ELSE { section_name }

\* _extract_column_names_from_ap_data
ExtractColumnNamesFromApData(data) ==
    UNION { SectionColumnNames(name, data[name]) : name \in DOMAIN data }

\* The same list in descending order: sorted(..., reverse=True).
GetAllColumnNames_Descending(data_list) ==
    LET up == Sorted(UNION { ExtractColumnNamesFromApData(data_list[i]) :
                               i \in 1..Len(data_list) })
    IN [j \in 1..Len(up) |-> up[Len(up) + 1 - j]]

\* _get_all_column_names
GetAllColumnNames(data_list) ==
    Sorted(UNION { ExtractColumnNamesFromApData(data_list[i]) :
                     i \in 1..Len(data_list) })

\* str(sat.get("used", "")).lower() == "yes"
IsUsed(sat) == StrLower(PyStr(Get(sat, "used", StrV("")))) = "yes"

\* bool(value): what "or" tests
Truthy(v) == v \notin {Null, FalseV, NumV(0), FltV(0), StrV("")}

\* a or b
PyOr(a, b) == IF Truthy(a) THEN a ELSE b

\* The reading of lines 467 and 487.
ReadingOf(sat, kind) ==
    IF kind = "snr"
    THEN PyOr(PyOr(Get(sat, "snr", Null), Get(sat, "cn0", Null)), Get(sat, "cno", Null))
    ELSE PyOr(Get(sat, "elev", Null), Get(sat, "elevation", Null))

\* float(value) in hundredths, for a value that is not a string
Hundredths(v) ==
    CASE v[1] = "num" -> 100 * v[2]
      [] v[1] = "flt" -> v[2]
      [] OTHER -> IF v = TrueV THEN 100 ELSE 0

\* What the loop body of lines 468-475 appends for one reading; float() of a
\* string of this vocabulary raises ValueError, which the loop swallows.
KeptReading(v) ==
    IF v = Null \/ v[1] = "str" THEN <<>>
    ELSE IF Hundredths(v) > -10000 THEN << Hundredths(v) >>
    ELSE <<>>

\* snr_values / elevation_values
RECURSIVE Readings(_, _, _)
Readings(satellites, kind, i) ==
    IF i > Len(satellites) THEN <<>>
    ELSE KeptReading(ReadingOf(satellites[i], kind)) \o Readings(satellites, kind, i + 1)

\* values.sort()
RECURSIVE SortNums(_)
SortNums(q) ==
    IF q = <<>> THEN <<>>
    ELSE LET i == CHOOSE i \in 1..Len(q) : \A j \in 1..Len(q) : q[i] <= q[j]
         IN <<q[i]>> \o SortNums(SubSeq(q, 1, i - 1) \o SubSeq(q, i + 1, Len(q)))

RECURSIVE SumOf(_)
SumOf(q) == IF q = <<>> THEN 0 ELSE Head(q) + SumOf(Tail(q))

\* round(sum / n, 2) in hundredths.  The readings here are whole numbers or
\* even hundredths and n <= 3, so the quotient is never halfway between two
\* hundredths.
RoundedMean(sum, n) == (2 * sum + n) \div (2 * n)

\* _calculate_median of a sorted list
CalculateMedian(values) ==
    IF Len(values) % 2 = 1 THEN values[(Len(values) \div 2) + 1]
    ELSE (values[Len(values) \div 2] + values[(Len(values) \div 2) + 1]) \div 2

\* "if snr_values: ... metrics[...] = ..." (lines 477-482, 497-502)
PutStats(metrics, prefix, values) ==
    IF values = <<>> THEN metrics
    ELSE Put(Put(Put(Put(metrics,
                         prefix \o "_min", FltV(values[1])),
                     prefix \o "_max", FltV(values[Len(values)])),
                 prefix \o "_avg", FltV(RoundedMean(SumOf(values), Len(values)))),
             prefix \o "_median", FltV(CalculateMedian(values)))

\* The same counts with unused counting the observations marked "no".
PutCounts_UnusedSaysNo(metrics, satellites, idx, total, used, unused) ==
    Put(Put(Put(metrics,
                total, NumV(Cardinality(idx))),
            used, NumV(Cardinality({ i \in idx : IsUsed(satellites[i]) }))),
        unused, NumV(Cardinality({ i \in idx :
                    StrLower(PyStr(Get(satellites[i], "used", StrV("")))) = "no" })))

\* The three counts of the satellites selected by the index set idx.
PutCounts(metrics, satellites, idx, total, used, unused) ==
    Put(Put(Put(metrics,
                total, NumV(Cardinality(idx))),
            used, NumV(Cardinality({ i \in idx : IsUsed(satellites[i]) }))),
        unused, NumV(Cardinality({ i \in idx : ~IsUsed(satellites[i]) })))

\* The constellation counts of lines 445-462.
RECURSIVE PutConstellationCounts(_, _, _)
PutConstellationCounts(metrics, satellites, i) ==
    IF i > Len(satellites) THEN metrics
    ELSE PutConstellationCounts(
             PutCounts(metrics, satellites,
                       { j \in 1..Len(satellites) :
                           ConstellationOf(satellites[j]) = ConstellationOf(satellites[i]) },
                       "satellites_" \o ConstellationOf(satellites[i]) \o "_total",
                       "satellites_" \o ConstellationOf(satellites[i]) \o "_used",
                       "satellites_" \o ConstellationOf(satellites[i]) \o "_unused"),
             satellites, i + 1)

\* _aggregate_satellite_data: a function from column names to values
AggregateSatelliteData(satellites) ==
    IF satellites = <<>> THEN <<>>
    ELSE PutStats(
             PutStats(
                 PutConstellationCounts(
                     PutCounts(<<>>, satellites, 1..Len(satellites),
                               "satellites_total_count", "satellites_used_count",
                               "satellites_unused_count"),
                     satellites, 1),
                 "satellites_snr", SortNums(Readings(satellites, "snr", 1))),
             "satellites_elevation", SortNums(Readings(satellites, "elevation", 1)))

\* _flatten_slots_data: the set of <<column, value>> it returns
FlattenSlotsData(slots, parent_prefix, all_columns) ==
    { << parent_prefix \o "_slots_count", NumV(Len(slots)) >> }
    \cup UNION { { << SlotColumn(parent_prefix, slots[i], key),
                      StrV(FormatCsvValue(SlotConfiguration(slots[i])[key])) >> :
                     key \in { k \in DOMAIN SlotConfiguration(slots[i]) :
                                 SlotColumn(parent_prefix, slots[i], k)
                                     \in Range(all_columns) } } :
                 i \in 1..Len(slots) }

\* The <<column, value>> assignments one section other than satellites asks
\* for (lines 358-381); each is made only "if column_name in flattened".
SectionCells(section_name, section_data, all_columns) ==
    IF section_name = "raw_data"
    THEN (IF IsDict(section_data)
          THEN { << "raw_" \o key, StrV(FormatCsvValue(section_data[2][key])) >> :
                   key \in DOMAIN section_data[2] }
          ELSE {})
    ELSE IF IsDict(section_data)
    THEN UNION { IF key = "slots" /\ IsList(section_data[2][key])
                 THEN FlattenSlotsData(section_data[2][key][2], section_name, all_columns)
                 ELSE { << section_name \o "_" \o key,
                           StrV(FormatCsvValue(section_data[2][key])) >> } :
                 key \in DOMAIN section_data[2] }
    ELSE { << section_name, StrV(FormatCsvValue(section_data)) >> }

\* The row dictionary with its columns initialised to None, the guarded
\* assignments in cells made and the satellite metrics merged in by
\* flattened.update(satellite_metrics), which is not guarded.  No two fields
\* of a record of this model share a column.
FlattenedRow(columns, cells, satellite_metrics) ==
    [ c \in columns \cup DOMAIN satellite_metrics |->
        IF c \in DOMAIN satellite_metrics THEN satellite_metrics[c]
        ELSE IF \E p \in cells : p[1] = c THEN (CHOOSE p \in cells : p[1] = c)[2]
        ELSE Null ]

\* _flatten_ap_data
FlattenApData(data, all_columns) ==
    FlattenedRow(Range(all_columns),
                 UNION { SectionCells(name, data[name], all_columns) :
                           name \in DOMAIN data \ {"satellites"} },
                 IF "satellites" \in DOMAIN data
                 THEN AggregateSatelliteData(data["satellites"][2]) ELSE <<>>)

\* The text csv.DictWriter writes for a value: "" for None, else str(value).
CellText(v) == IF v = Null THEN "" ELSE PyStr(v)

\* writer.writerow(flattened_row) for each record from the i-th on.  A row
\* dictionary with a key that is no field name makes DictWriter raise
\* ValueError before it writes the row; the rows written before stay in the
\* file, which the with statement closes.
\* The text of a row and "\r\n" written at the end of the file: a new row
\* after a line terminator, else text that continues the last line, where
\* the first cell lengthens the last cell of that line.
JoinLines(last, cells) ==
    SubSeq(last, 1, Len(last) - 1) \o <<last[Len(last)] \o cells[1]>> \o Tail(cells)

WriteLine(file, cells) ==
    IF file.terminated THEN [file EXCEPT !.rows = Append(@, cells)]
    ELSE IF file.rows = <<>>
    THEN [file EXCEPT !.header = JoinLines(@, cells), !.terminated = TRUE]
    ELSE [file EXCEPT !.rows[Len(file.rows)] = JoinLines(@, cells),
                      !.terminated = TRUE]

RECURSIVE WriteRows(_, _, _)
WriteRow(file, data_list, i, flattened_row) ==
    IF ~(DOMAIN flattened_row \subseteq Range(file.header))
    THEN [result |-> FALSE, file |-> file]
    ELSE WriteRows(WriteLine(file, [j \in 1..Len(file.header) |->
                                      CellText(flattened_row[file.header[j]])]),
                   data_list, i + 1)

WriteRows(file, data_list, i) ==
    IF i > Len(data_list) THEN [result |-> TRUE, file |-> file]
    ELSE WriteRow(file, data_list, i, FlattenApData(data_list[i], file.header))

\* The same function appending to every file that exists, whatever its
\* first line.
ExportGnssDataToCsv_AppendToAny(data_list, file, append) ==
    IF data_list = <<>> THEN [result |-> FALSE, file |-> file]
    ELSE IF append /\ file.exists
    THEN WriteRows(file, data_list, 1)
    ELSE WriteRows([EmptyFile EXCEPT !.header = GetAllColumnNames(data_list)],
                   data_list, 1)

\* export_gnss_data_to_csv: [result, file]
ExportGnssDataToCsv(data_list, file, append) ==
    IF data_list = <<>> THEN [result |-> FALSE, file |-> file]
    ELSE IF append /\ file.exists /\ file.header # <<>>
    THEN WriteRows(file, data_list, 1)
    ELSE WriteRows([EmptyFile EXCEPT !.header = GetAllColumnNames(data_list)],
                   data_list, 1)

-----------------------------------------------------------------------------
(* Records for the exporter                                                *)

SatPool ==
    { [constellation |-> StrV("GPS"), used |-> StrV("Yes"),
       snr |-> NumV(40), elev |-> NumV(30)],
      [constellation |-> StrV("GPS"), used |-> StrV("No"),
       snr |-> NumV(0), elev |-> NumV(0)],
      [constellation |-> StrV("GLONASS"), used |-> StrV("Yes"),
       cno |-> NumV(12), elevation |-> NumV(45)],
      [constellation |-> StrV("GPS"), used |-> TrueV,
       snr |-> NumV(-128), elev |-> NumV(-100)],
      [used |-> FalseV, cn0 |-> FltV(3050)] }

MainSection(name) == DictV([main_ap_name |-> StrV(name)])

\* One record for every satellites list of up to MaxSats observations.
SatRecords ==
    { [main |-> MainSection("ap0"), satellites |-> ListV(q)] :
        q \in Seqs(SatPool, MaxSats) }

\* Records whose sections differ: a satellites list, a simple value, raw
\* key/value pairs, slot configurations.
RecordPool ==
    { [main |-> MainSection("ap1"),
       satellites |-> ListV(<< [constellation |-> StrV("GPS"), used |-> StrV("Yes"),
                                snr |-> NumV(40), elev |-> NumV(30)] >>)],
      [main |-> MainSection("ap2"), note |-> StrV(" x\ny "), satellites |-> ListV(<<>>)],
      [main |-> MainSection("ap3"), raw_data |-> DictV([fix |-> NumV(1)])],
      [main |-> MainSection("ap4"),
       show_capwap_client_config |->
           DictV([slots |-> ListV(<< [slot_number |-> NumV(0),
                                      configuration |-> DictV([band |-> StrV("5")])] >>)])],
      [main |-> MainSection("ap5"),
       satellites |-> ListV(<< [constellation |-> StrV("GLONASS"), used |-> TrueV,
                                cno |-> NumV(12), elevation |-> NumV(45)] >>),
       show_capwap_client_config |->
           DictV([slots |-> ListV(<< [slot_number |-> NumV(1),
                                      configuration |-> DictV([chan |-> NumV(6),
                                                               on |-> TrueV])],
                                     [slot_number |-> NumV(2),
                                      configuration |-> DictV(<<>>)] >>)])] }

\* data_list of a call in overwrite mode, the empty list included.
Batches == Seqs(RecordPool, MaxRows) \cup { <<r>> : r \in SatRecords }

\* data_list of a call in append mode.
AppendBatches == Seqs(RecordPool, MaxRows)

-----------------------------------------------------------------------------
(* The exporter and its destination file                                   *)

InitCsv ==
    /\ content = <<>>
    /\ ap_address = <<>>
    /\ pstate = "input"
    /\ rec = EmptyDict
    /\ include_raw = FALSE
    /\ \E f \in {NoFile, HeaderlessFile, UnterminatedFile} : CsvIdleWith(f)
    /\ TextIdle
    /\ CapwapIdle
    /\ CollectorIdle

\* The state after a call that returned r.
ExportOutcome(data, append, r) ==
    /\ batch' = data
    /\ append_mode' = append
    /\ csvfile' = r.file
    /\ dest_before' = csvfile
    /\ exp_result' = IF r.result THEN "true" ELSE "false"
    /\ exports' = exports + 1

\* export_gnss_data_to_csv(data, output_file, logger, append_mode)
Export ==
    /\ exports < MaxExports
    /\ \E append \in BOOLEAN :
         \E data \in (IF append THEN AppendBatches ELSE Batches) :
            ExportOutcome(data, append, ExportGnssDataToCsv(data, csvfile, append))
    /\ UNCHANGED parserVars
    /\ UNCHANGED textVars
    /\ UNCHANGED capwapVars
    /\ UNCHANGED collectorVars

NextCsv == Export

SpecCsv == InitCsv /\ [][NextCsv]_vars

-----------------------------------------------------------------------------
(* The line parser of lib/parser.py.  The text given to parse_text is a    *)
(* sequence of lines joined by line feeds; a line is either empty or       *)
(* "<label> : <value>", written [label, value].  A labelled line has a     *)
(* value, no value holds a label, and no value starts with a blank.  A     *)
(* number is <<"dec", units, scale>>, units / 10^scale with no trailing    *)
(* zero in the fraction.                                                   *)

EmptyLine == [label |-> "", value |-> ""]

\* Every character of s is in chars.
RECURSIVE AllChars(_, _)
AllChars(s, chars) ==
    s = "" \/ (Head(s) \in chars /\ AllChars(Tail(s), chars))

\* \d+
IsDigits(s) == s # "" /\ AllChars(s, Range(Digits))

\* [-+]?\d+\.\d+
Unsigned(s) == IF s # "" /\ Head(s) \in {"-", "+"} THEN Tail(s) ELSE s

IsDecimal(s) ==
    \E k \in 2..(Len(Unsigned(s)) - 1) :
        /\ SubSeq(Unsigned(s), k, k) = "."
        /\ IsDigits(SubSeq(Unsigned(s), 1, k - 1))
        /\ IsDigits(SubSeq(Unsigned(s), k + 1, Len(Unsigned(s))))

\* \d+\.\d+\.\d+\.\d+
IsDottedQuad(s) ==
    \E i, j, k \in 2..(Len(s) - 1) :
        /\ i < j /\ j < k
        /\ SubSeq(s, i, i) = "." /\ SubSeq(s, j, j) = "." /\ SubSeq(s, k, k) = "."
        /\ IsDigits(SubSeq(s, 1, i - 1)) /\ IsDigits(SubSeq(s, i + 1, j - 1))
        /\ IsDigits(SubSeq(s, j + 1, k - 1)) /\ IsDigits(SubSeq(s, k + 1, Len(s)))

\* [0-9a-fA-F:]+
IsHexColons(s) ==
    s # "" /\ AllChars(s, Range(Digits) \cup {"a", "b", "c", "d", "e", "f",
                                             "A", "B", "C", "D", "E", "F", ":"})

\* The group of "([-+]?\d+\.\d+)\s*m" in a value that ends with "m".
BeforeUnit(s) == Strip(SubSeq(s, 1, Len(s) - 1))

\* The group <<g>> the pattern of a field captures in the value v of a line
\* that the pattern's "$" lets it match, NoMatch if it does not match.
GroupOf(class, v) ==
    CASE class = "any" -> IF v # "" THEN <<v>> ELSE NoMatch
      [] class = "hex" -> IF IsHexColons(v) THEN <<v>> ELSE NoMatch
      [] class = "ip" -> IF IsDottedQuad(v) THEN <<v>> ELSE NoMatch
      [] class = "decimal" -> IF IsDecimal(v) THEN <<v>> ELSE NoMatch
      [] class = "metres" ->
            IF v # "" /\ SubSeq(v, Len(v), Len(v)) = "m" /\ IsDecimal(BeforeUnit(v))
               /\ SubSeq(BeforeUnit(v), 1, Len(BeforeUnit(v))) = SubSeq(v, 1, Len(BeforeUnit(v)))
            THEN <<BeforeUnit(v)>> ELSE NoMatch
      [] OTHER -> IF IsDigits(v) THEN <<v>> ELSE NoMatch

\* int(s) of a string of digits
RECURSIVE StrToNat(_)
StrToNat(s) ==
    IF s = "" THEN 0
    ELSE 10 * StrToNat(SubSeq(s, 1, Len(s) - 1))
         + ((CHOOSE d \in 1..10 : Digits[d] = SubSeq(s, Len(s), Len(s))) - 1)

\* s without its trailing zeros
RECURSIVE DropZeros(_)
DropZeros(s) ==
    IF s # "" /\ SubSeq(s, Len(s), Len(s)) = "0"
    THEN DropZeros(SubSeq(s, 1, Len(s) - 1)) ELSE s

DecV(units, scale) == <<"dec", units, scale>>

\* float(s) of a string that [-+]?\d+\.\d+ matches
StrToFloat(s) ==
    LET t == Unsigned(s)
        dot == CHOOSE k \in 1..Len(t) : SubSeq(t, k, k) = "."
        frac == DropZeros(SubSeq(t, dot + 1, Len(t)))
        units == StrToNat(SubSeq(t, 1, dot - 1) \o frac)
    IN DecV(IF Head(s) = "-" THEN -units ELSE units, Len(frac))

\* The value parse_text stores for a captured group.
FieldValue(class, group) ==
    CASE class \in {"decimal", "metres"} -> StrToFloat(group)
      [] class = "digits" -> NumV(StrToNat(group))
      [] class \in {"hex", "ip"} -> StrV(Strip(group))
      [] OTHER -> StrV(Strip(group))

\* The patterns of __init__ (lines 36-47) in the order parse_text applies
\* them: the key of the result, the label in lower case, the class of the
\* group.
TextFieldTable ==
    << <<"ap_name", "ap name", "any">>,
       <<"model", "ap model", "any">>,
       <<"mac_address", "mac address", "hex">>,
       <<"ip_address", "ip address", "ip">>,
       <<"location", "ap location", "any">>,
       <<"gnss_status", "gnss status", "any">>,
       <<"latitude", "latitude", "decimal">>,
       <<"longitude", "longitude", "decimal">>,
       <<"altitude_meters", "altitude", "metres">>,
       <<"satellites_count", "number of satellites", "digits">>,
       <<"gnss_timestamp", "time stamp", "any">> >>

\* The line a pattern's "$" can end.  The patterns are compiled without
\* re.MULTILINE, so "$" matches only at the end of the text or before a line
\* feed that ends the text, and "." matches no line feed: a pattern can match
\* on the last line only, or on the line before it when the last is empty.
EndLine(lines) ==
    IF Len(lines) >= 2 /\ lines[Len(lines)] = EmptyLine
    THEN lines[Len(lines) - 1] ELSE lines[Len(lines)]

\* pattern.search(text) for the pattern of entry f: the group it captures,
\* NoMatch if it matches nowhere.
SearchText(lines, f) ==
    IF lines = <<>> THEN NoMatch
    ELSE IF StrLower(EndLine(lines).label) # f[2] THEN NoMatch
    ELSE GroupOf(f[3], EndLine(lines).value)

\* "if match: result[key] = ..." for the entries from the k-th on.
RECURSIVE PutTextFields(_, _, _)
PutTextFields(lines, k, result) ==
    IF k > Len(TextFieldTable) THEN result
    ELSE PutTextFields(lines, k + 1,
             IF SearchText(lines, TextFieldTable[k]) = NoMatch THEN result
             ELSE Put(result, TextFieldTable[k][1],
                      FieldValue(TextFieldTable[k][3],
                                 SearchText(lines, TextFieldTable[k])[1])))

\* GnssInfoParser.parse_text of lib/parser.py
ParseText(lines) == PutTextFields(lines, 1, <<>>)

\* Lines for parse_text: every field with a value its pattern accepts, some
\* with a value it rejects, and the empty line.
TextLinePool ==
    { EmptyLine,
      [label |-> "AP Name", value |-> "AP-Building1-Floor3"],
      [label |-> "ap name", value |-> "ap1 "],
      [label |-> "AP Model", value |-> "C9166I"],
      [label |-> "MAC Address", value |-> "00:11:22:33:44:55"],
      [label |-> "MAC Address", value |-> "00:1g"],
      [label |-> "IP Address", value |-> "192.168.1.100"],
      [label |-> "IP Address", value |-> "1.2.3"],
      [label |-> "AP Location", value |-> "Building 1, 3rd Floor"],
      [label |-> "GNSS Status", value |-> "Active and tracking"],
      [label |-> "Latitude", value |-> "37.7749"],
      [label |-> "Latitude", value |-> "37"],
      [label |-> "Longitude", value |-> "-122.4190"],
      [label |-> "Altitude", value |-> "12.5 m"],
      [label |-> "Altitude", value |-> "12.5"],
      [label |-> "Number of Satellites", value |-> "8"],
      [label |-> "Number of Satellites", value |-> "8.5"],
      [label |-> "Time Stamp", value |-> "2023-07-15 13:45:22"] }

Texts == Seqs(TextLinePool, MaxTextLines)

InitText ==
    /\ content = <<>>
    /\ ap_address = <<>>
    /\ pstate = "input"
    /\ rec = EmptyDict
    /\ include_raw = FALSE
    /\ CsvIdle
    /\ CapwapIdle
    /\ CollectorIdle
    /\ input_text \in Texts
    /\ text_result = [parsed |-> FALSE, fields |-> <<>>]

\* result = parser.parse_text(input_text)
ParseTextCall ==
    /\ ~text_result.parsed
    /\ text_result' = [parsed |-> TRUE, fields |-> ParseText(input_text)]
    /\ UNCHANGED input_text
    /\ UNCHANGED parserVars
    /\ UNCHANGED csvVars
    /\ UNCHANGED capwapVars
    /\ UNCHANGED collectorVars

NextText == ParseTextCall

SpecText == InitText /\ [][NextText]_vars

-----------------------------------------------------------------------------
(* CapwapConfigParser.  The output of "show capwap client configuration"   *)
(* is a sequence of lines: a heading "Slot N Config:" (slot = N), an empty *)
(* line, or "<key> : <value>" after indent blanks, a sub-section header    *)
(* "<key>:" being the line whose value is empty.  A line that is not a     *)
(* heading has slot = -1.  No value is a number in exponent form.          *)

\* r'^\s{6,}': the indent of a line that belongs to a sub-section.
MinSectionIndent == 6

\* line.startswith("    "): the indent of the lines of a slot.
SlotIndent == 4

Heading(n) == [slot |-> n, indent |-> 0, key |-> "", value |-> ""]
KV(indent, key, value) == [slot |-> -1, indent |-> indent, key |-> key, value |-> value]
NoLine == KV(0, "", "")

IsHeading(line) == line.slot >= 0
IsBlank(line) == ~IsHeading(line) /\ line.key = ""

\* key.strip().lower().replace(" ", "_")
RECURSIVE ReplaceSpaces(_)
ReplaceSpaces(s) ==
    IF s = "" THEN ""
    ELSE (IF Head(s) = " " THEN "_" ELSE Head(s)) \o ReplaceSpaces(Tail(s))

NormalizeKey(key) == ReplaceSpaces(StrLower(Strip(key)))

\* CapwapConfigParser._normalize_value
NormalizeValue(value) ==
    IF StrLower(Strip(value)) \in {"true", "yes", "enabled"} THEN TrueV
    ELSE IF StrLower(Strip(value)) \in {"false", "no", "disabled"} THEN FalseV
    ELSE IF IsDigits(Strip(value)) THEN NumV(StrToNat(Strip(value)))
    ELSE IF Head(Strip(value)) = "-" /\ IsDigits(Tail(Strip(value)))
    THEN NumV(0 - StrToNat(Tail(Strip(value))))
    ELSE IF IsDecimal(Strip(value)) THEN StrToFloat(Strip(value))
    ELSE StrV(Strip(value))

\* The lines of match.group(2) of slot_pattern for the heading on line h: the
\* lines after it up to the next heading or the end.
RECURSIVE SlotEnd(_, _)
SlotEnd(lines, i) ==
    IF i > Len(lines) \/ IsHeading(lines[i]) THEN i - 1 ELSE SlotEnd(lines, i + 1)

\* slot_content.strip(): the blank lines at both ends go, and so do the
\* blanks that indent the first line left.
RECURSIVE DropBlankLines(_)
DropBlankLines(lines) ==
    IF lines # <<>> /\ IsBlank(Head(lines)) THEN DropBlankLines(Tail(lines)) ELSE lines

StripContent(lines) ==
    IF DropBlankLines(lines) = <<>> THEN <<>>
    ELSE << [Head(DropBlankLines(lines)) EXCEPT !.indent = 0] >>
         \o Tail(DropBlankLines(lines))

\* The state of the loop over the lines of a slot.
SlotLoopStart == [config |-> <<>>, section |-> "", data |-> <<>>]

\* "if current_section and current_section_data: slot_config[...] = ..."
CloseSection(st) ==
    IF st.section # "" /\ st.data # <<>>
    THEN Put(st.config, st.section, DictV(st.data)) ELSE st.config

\* One pass of the loop body (lines 163-194).  Both patterns begin with
\* "^\s+", so a line without indent matches neither.
SlotLine(st, line) ==
    IF IsBlank(line) \/ line.indent = 0 THEN st
    ELSE IF line.value = ""
    THEN [config |-> CloseSection(st), section |-> NormalizeKey(line.key), data |-> <<>>]
    ELSE IF st.section # "" /\ line.indent >= MinSectionIndent
    THEN [st EXCEPT !.data = Put(@, NormalizeKey(line.key), NormalizeValue(line.value))]
    ELSE [config |-> Put(st.config, NormalizeKey(line.key), NormalizeValue(line.value)),
          section |-> "", data |-> <<>>]

RECURSIVE SlotLoop(_, _, _)
SlotLoop(st, slot_lines, i) ==
    IF i > Len(slot_lines) THEN CloseSection(st)
    ELSE SlotLoop(SlotLine(st, slot_lines[i]), slot_lines, i + 1)

\* The entry of the slots list for the heading on line h.
SlotEntry(lines, h) ==
    [slot_number |-> NumV(lines[h].slot),
     configuration |->
         DictV(SlotLoop(SlotLoopStart,
                        StripContent(SubSeq(lines, h + 1, SlotEnd(lines, h + 1))), 1))]

\* CapwapConfigParser._extract_slot_configs
RECURSIVE ExtractSlotConfigs(_, _)
ExtractSlotConfigs(lines, i) ==
    IF i > Len(lines) THEN <<>>
    ELSE (IF IsHeading(lines[i]) THEN <<SlotEntry(lines, i)>> ELSE <<>>)
         \o ExtractSlotConfigs(lines, i + 1)

\* CapwapConfigParser._extract_main_config: the key/value lines that are not
\* indented by four blanks and do not begin with "Slot".
RECURSIVE ExtractMainConfig(_, _, _)
ExtractMainConfig(lines, i, main_config) ==
    IF i > Len(lines) THEN main_config
    ELSE ExtractMainConfig(lines, i + 1,
             IF \/ IsHeading(lines[i]) \/ IsBlank(lines[i])
                \/ lines[i].indent >= SlotIndent \/ lines[i].value = ""
             THEN main_config
             ELSE Put(main_config, NormalizeKey(lines[i].key),
                      NormalizeValue(lines[i].value)))

\* The value of "show_capwap_client_config" for the section capwap_section.
NestedData(section) ==
    IF section = <<>> THEN <<>>
    ELSE Put(ExtractMainConfig(section, 1, <<>>), "slots",
             ListV(ExtractSlotConfigs(section, 1)))

\* CapwapConfigParser.parse on a transcript that ends with the lines that
\* follow the command: _extract_capwap_config_section strips what it returns.
CapwapParse(lines) == NestedData(StripContent(lines))

\* Lines of the command output.
CapwapLinePool ==
    { Heading(0), Heading(1), NoLine,
      KV(0, "Name", "ap1"),
      KV(4, "Radio Type", "RADIO_TYPE_80211bg"),
      KV(4, "Channel", "6"),
      KV(4, "Load Profile", ""),
      KV(6, "Client Threshold", "12"),
      KV(6, "HE Enabled", "Yes") }

CapwapSections == Seqs(CapwapLinePool, MaxCapwapLines)

InitCapwap ==
    /\ content = <<>>
    /\ ap_address = <<>>
    /\ pstate = "input"
    /\ rec = EmptyDict
    /\ include_raw = FALSE
    /\ CsvIdle
    /\ TextIdle
    /\ CollectorIdle
    /\ capwap_section \in CapwapSections
    /\ capwap_config = [parsed |-> FALSE, config |-> <<>>]

\* parsed_data = parser.parse(content)
ParseCapwap ==
    /\ ~capwap_config.parsed
    /\ capwap_config' = [parsed |-> TRUE, config |-> CapwapParse(capwap_section)]
    /\ UNCHANGED capwap_section
    /\ UNCHANGED parserVars
    /\ UNCHANGED csvVars
    /\ UNCHANGED textVars
    /\ UNCHANGED collectorVars

NextCapwap == ParseCapwap

SpecCapwap == InitCapwap /\ [][NextCapwap]_vars

-----------------------------------------------------------------------------
(* The collector, main of ap_ssh_collector.py.  ap_list is the list of     *)
(* addresses after OrderedDict.fromkeys, concurrent is args.concurrent and *)
(* csv_enabled is csv_config["enabled"].  Every address has a worker, the  *)
(* call of process_single_ap for it, run by main itself in the sequential  *)
(* branch and by a thread of its own in the threaded branch.  A worker is  *)
(* [pc, connection, disconnected, success, parsed_data]: where the call    *)
(* stands, whether ConnectHandler gave it a connection ("none", "open",    *)
(* "closed"), whether connection.disconnect() has been called, and the     *)
(* result it returns.  What the device, the network and the file system do *)
(* is a choice made at each step.                                          *)

\* list(OrderedDict.fromkeys(raw)): the first occurrence of every address.
RECURSIVE Dedupe(_)
Dedupe(raw) ==
    IF raw = <<>> THEN <<>>
    ELSE <<Head(raw)>> \o Dedupe(SelectSeq(Tail(raw), LAMBDA x : x # Head(raw)))

ApPool == { "ap" \o IntToStr(i) : i \in 1..MaxAps }

IdleWorker ==
    [pc |-> "idle", connection |-> "none", disconnected |-> FALSE,
     success |-> FALSE, parsed_data |-> FALSE]

\* "if args.concurrent <= 1 or len(ap_list) == 1"
Sequential == concurrent <= 1 \/ Len(ap_list) = 1

\* max_threads = min(args.concurrent, len(ap_list))
MaxThreads == IF concurrent < Len(ap_list) THEN concurrent ELSE Len(ap_list)

\* t.is_alive(): the thread function has neither returned nor raised.
IsAlive(a) == worker[a].pc \notin {"done", "dead"}

InitCollector ==
    /\ content = <<>>
    /\ ap_address = <<>>
    /\ pstate = "input"
    /\ rec = EmptyDict
    /\ include_raw = FALSE
    /\ CsvIdle
    /\ TextIdle
    /\ CapwapIdle
    /\ ap_list \in { Dedupe(raw) : raw \in Seqs(ApPool, MaxAps) \ {<<>>} }
    /\ concurrent \in 1..MaxConcurrent
    /\ csv_enabled \in BOOLEAN
    /\ main_pc = "process"
    /\ next_index = 1
    /\ threads = <<>>
    /\ active_threads = 0
    /\ worker = [a \in ApPool |-> IdleWorker]
    /\ results = <<>>
    /\ csv_exports = 0

OtherVarsUnchanged ==
    /\ UNCHANGED parserVars
    /\ UNCHANGED csvVars
    /\ UNCHANGED textVars
    /\ UNCHANGED capwapVars

\* The sequential loop calls process_single_ap for the next address.
ProcessNext ==
    /\ main_pc = "process" /\ Sequential
    /\ next_index <= Len(ap_list)
    /\ worker[ap_list[next_index]].pc = "idle"
    /\ worker' = [worker EXCEPT ![ap_list[next_index]].pc = "setup"]
    /\ UNCHANGED <<ap_list, concurrent, csv_enabled, main_pc, next_index, threads,
                   active_threads, results, csv_exports>>
    /\ OtherVarsUnchanged

\* The threaded loop starts a thread for the next address once fewer than
\* max_threads are counted as active.
StartThread ==
    /\ main_pc = "process" /\ ~Sequential
    /\ next_index <= Len(ap_list)
    /\ active_threads < MaxThreads
    /\ worker' = [worker EXCEPT ![ap_list[next_index]].pc = "setup"]
    /\ threads' = Append(threads, ap_list[next_index])
    /\ active_threads' = active_threads + 1
    /\ next_index' = next_index + 1
    /\ UNCHANGED <<ap_list, concurrent, csv_enabled, main_pc, results, csv_exports>>
    /\ OtherVarsUnchanged

\* One pass of "for t in threads[:]: if not t.is_alive(): ..." that finds a
\* finished thread.
ReapThreads ==
    /\ main_pc = "process" /\ ~Sequential
    /\ next_index <= Len(ap_list)
    /\ active_threads >= MaxThreads
    /\ \E i \in 1..Len(threads) : ~IsAlive(threads[i])
    /\ threads' = SelectSeq(threads, IsAlive)
    /\ active_threads' = active_threads - (Len(threads) - Len(SelectSeq(threads, IsAlive)))
    /\ UNCHANGED <<ap_list, concurrent, csv_enabled, main_pc, next_index, worker,
                   results, csv_exports>>
    /\ OtherVarsUnchanged

\* The loop over ap_list is over.
FinishLoop ==
    /\ main_pc = "process"
    /\ next_index > Len(ap_list)
    /\ main_pc' = IF Sequential THEN "summary" ELSE "join"
    /\ UNCHANGED <<ap_list, concurrent, csv_enabled, next_index, threads,
                   active_threads, worker, results, csv_exports>>
    /\ OtherVarsUnchanged

\* The same step without waiting for the threads.
JoinThreads_NoWait ==
    /\ main_pc = "join"
    /\ main_pc' = "summary"
    /\ UNCHANGED <<ap_list, concurrent, csv_enabled, next_index, threads,
                   active_threads, worker, results, csv_exports>>
    /\ OtherVarsUnchanged

\* "for thread in threads: thread.join()" returns when every thread left in
\* the list has finished.
JoinThreads ==
    /\ main_pc = "join"
    /\ \A i \in 1..Len(threads) : ~IsAlive(threads[i])
    /\ main_pc' = "summary"
    /\ UNCHANGED <<ap_list, concurrent, csv_enabled, next_index, threads,
                   active_threads, worker, results, csv_exports>>
    /\ OtherVarsUnchanged

\* csv_data_list: the parsed_data of the results with success.
CsvDataList == SelectSeq(results, LAMBDA r : r.success /\ r.parsed_data)

\* "if csv_config['enabled'] and success_count > 0: ... if csv_data_list:"
ExportWanted ==
    /\ csv_enabled
    /\ \E i \in 1..Len(results) : results[i].success
    /\ CsvDataList # <<>>

\* The one call of export_gnss_data_to_csv, after the summary.
ExportCsv ==
    /\ main_pc = "summary"
    /\ ExportWanted
    /\ csv_exports' = csv_exports + 1
    /\ main_pc' = "done"
    /\ UNCHANGED <<ap_list, concurrent, csv_enabled, next_index, threads,
                   active_threads, worker, results>>
    /\ OtherVarsUnchanged

\* main ends without a CSV export.
SkipExport ==
    /\ main_pc = "summary"
    /\ ~ExportWanted
    /\ main_pc' = "done"
    /\ UNCHANGED <<ap_list, concurrent, csv_enabled, next_index, threads,
                   active_threads, worker, results, csv_exports>>
    /\ OtherVarsUnchanged

MainUnchanged ==
    /\ UNCHANGED <<ap_list, concurrent, csv_enabled, main_pc, next_index, threads,
                   active_threads, results, csv_exports>>
    /\ OtherVarsUnchanged

\* setup_logging(ap_address, log_dir), called before the try block: it
\* returns, or os.makedirs or the file handler raises.
SetupLogging(a) ==
    /\ worker[a].pc = "setup"
    /\ \E ok \in BOOLEAN :
          worker' = [worker EXCEPT ![a].pc = IF ok THEN "connect" ELSE "raised"]
    /\ MainUnchanged

\* connect_to_ap: ConnectHandler fails and no connection exists; or it gives
\* a connection and enable() succeeds; or enable() fails and connect_to_ap
\* calls disconnect() itself, which may fail too, and reports no success.
ConnectToAp(a) ==
    /\ worker[a].pc = "connect"
    /\ \E outcome \in {"refused", "enabled", "not enabled, closed", "not enabled, close failed"} :
          worker' = [worker EXCEPT ![a] =
              CASE outcome = "refused" -> [@ EXCEPT !.pc = "returned"]
                [] outcome = "enabled" -> [@ EXCEPT !.pc = "commands", !.connection = "open"]
                [] outcome = "not enabled, closed" ->
                       [@ EXCEPT !.pc = "returned", !.connection = "closed",
                                 !.disconnected = TRUE]
                [] OTHER ->
                       [@ EXCEPT !.pc = "returned", !.connection = "open",
                                 !.disconnected = TRUE]]
    /\ MainUnchanged

\* run_ap_commands: it returns a result with or without success, or it
\* raises (os.makedirs before its try block, open() of the file it writes
\* when no output was collected or when parsing failed) and the except
\* block of process_single_ap returns the failure.
RunApCommands(a) ==
    /\ worker[a].pc = "commands"
    /\ \E outcome \in {"success", "failure", "raised"} :
          worker' = [worker EXCEPT ![a] =
              CASE outcome = "success" ->
                       [@ EXCEPT !.pc = "disconnect", !.success = TRUE, !.parsed_data = TRUE]
                [] outcome = "failure" -> [@ EXCEPT !.pc = "disconnect"]
                [] OTHER -> [@ EXCEPT !.pc = "returned"]]
    /\ MainUnchanged

\* "try: connection.disconnect() except Exception: logger.warning(...)"
Disconnect(a) ==
    /\ worker[a].pc = "disconnect"
    /\ \E closed \in BOOLEAN :
          worker' = [worker EXCEPT ![a].pc = "returned",
                                   ![a].disconnected = TRUE,
                                   ![a].connection = IF closed THEN "closed" ELSE "open"]
    /\ MainUnchanged

\* results.append(result), by main in the sequential loop and by the thread
\* function in the threaded one.
AppendResult(a) ==
    /\ worker[a].pc = "returned"
    /\ results' = Append(results, [ap_address |-> a, success |-> worker[a].success,
                                   parsed_data |-> worker[a].parsed_data])
    /\ worker' = [worker EXCEPT ![a].pc = "done"]
    /\ next_index' = IF Sequential THEN next_index + 1 ELSE next_index
    /\ UNCHANGED <<ap_list, concurrent, csv_enabled, main_pc, threads, active_threads,
                   csv_exports>>
    /\ OtherVarsUnchanged

\* The exception of setup_logging leaves process_single_ap: in a thread it
\* ends the thread before results.append, in the sequential loop it leaves
\* main.
Propagate(a) ==
    /\ worker[a].pc = "raised"
    /\ worker' = [worker EXCEPT ![a].pc = "dead"]
    /\ main_pc' = IF Sequential THEN "crashed" ELSE main_pc
    /\ UNCHANGED <<ap_list, concurrent, csv_enabled, next_index, threads,
                   active_threads, results, csv_exports>>
    /\ OtherVarsUnchanged

NextCollector ==
    \/ ProcessNext
    \/ StartThread
    \/ ReapThreads
    \/ FinishLoop
    \/ JoinThreads
    \/ ExportCsv
    \/ SkipExport
    \/ \E a \in ApPool : SetupLogging(a)
    \/ \E a \in ApPool : ConnectToAp(a)
    \/ \E a \in ApPool : RunApCommands(a)
    \/ \E a \in ApPool : Disconnect(a)
    \/ \E a \in ApPool : AppendResult(a)
    \/ \E a \in ApPool : Propagate(a)

SpecCollector == InitCollector /\ [][NextCollector]_vars

-----------------------------------------------------------------------------
(* Properties of the parser and of the record run_ap_commands assembles    *)

\* C1: for every transcript, the empty one included, parse returns a record
\* in which main, show_version, show_inventory, gnss_state,
\* gnss_postprocessor, cisco_gnss and last_location_acquired each hold
\* exactly their declared keys, and in which satellites is a list.
C1_EveryTranscriptGivesAllKeys ==
    pstate # "input" =>
        /\ pstate \in {"returned", "assembled", "printed"}
        /\ LET declared ==
                   [main |-> DefaultMainMetrics,
                    show_version |-> DefaultShowVersionMetrics,
                    show_inventory |-> DefaultShowInventoryMetrics,
                    gnss_state |-> DefaultGnssStateMetrics,
                    gnss_postprocessor |-> DefaultGnssPostprocessorMetrics,
                    cisco_gnss |-> DefaultCiscoGnssMetrics,
                    last_location_acquired |-> DefaultLastLocationAcquiredMetrics]
           IN /\ \A s \in DOMAIN declared :
                    /\ s \in DOMAIN rec.val
                    /\ DOMAIN rec.val[s] = DOMAIN declared[s]
              /\ "satellites" \in DOMAIN rec.val
              /\ DOMAIN rec.val["satellites"] = 1..Len(rec.val["satellites"])

\* C2: in every record parse returns, each of gnss_postprocessor,
\* cisco_gnss and last_location_acquired has all its numeric fields null
\* when not_available is true, and has not_available false and all its
\* numeric fields null when its found flag is false.
C2_LocationFixConsistent ==
    pstate \in {"returned", "assembled", "printed"} =>
        \A s \in { <<"gnss_postprocessor", "gnss_pp_parser_found">>,
                   <<"cisco_gnss", "cisco_gnss_parser_found">>,
                   <<"last_location_acquired", "last_location_parser_found">> } :
            LET m == rec.val[s[1]]
                numericNull ==
                    \A k \in {"latitude", "longitude", "horacc", "horacc_hdop",
                              "uncertainty_ellipse_major_axis",
                              "uncertainty_ellipse_minor_axis",
                              "uncertainty_ellipse_orientation",
                              "altitude_msl", "altitude_hae", "vertacc"} :
                        m[k] = Null
            IN /\ m["not_available"] = TrueV => numericNull
               /\ m[s[2]] = FalseV => (m["not_available"] = FalseV /\ numericNull)

\* A returned record with one section not available although a latitude
\* follows its sentinel, one section absent, and one section with values.
C2_Witness ==
    /\ pstate = "returned"
    /\ rec.val["cisco_gnss"]["not_available"] = TrueV
    /\ \E i \in 1..(Len(content) - 4) :
          /\ content[i] = W("CiscoGNSS:")
          /\ content[i + 4] = W("Latitude:")
    /\ rec.val["gnss_postprocessor"]["gnss_pp_parser_found"] = FalseV
    /\ rec.val["last_location_acquired"]["latitude"] = FloatV("41.1")

\* C3: when the text right after the marker GNSS_PostProcessor:, CiscoGNSS:
\* or Last Location Acquired: is N/A in any letter case, the section of the
\* returned record has not_available true and every numeric field null,
\* whatever labelled values the rest of the transcript holds.
C3_SentinelWins ==
    pstate \in {"returned", "assembled", "printed"} =>
        \A s \in { <<"gnss_postprocessor", "GNSS_PostProcessor:">>,
                   <<"cisco_gnss", "CiscoGNSS:">>,
                   <<"last_location_acquired", "Last Location Acquired:">> } :
            LET m == rec.val[s[1]]
                bodyIsNA ==
                    \E i \in 1..Len(content) :
                        /\ content[i] = W(s[2])
                        /\ NextTok(content, i) # 0
                        /\ content[NextTok(content, i)] \in {W("N/A"), W("n/a")}
            IN bodyIsNA =>
                  /\ m["not_available"] = TrueV
                  /\ \A k \in {"latitude", "longitude", "horacc", "horacc_hdop",
                               "uncertainty_ellipse_major_axis",
                               "uncertainty_ellipse_minor_axis",
                               "uncertainty_ellipse_orientation",
                               "altitude_msl", "altitude_hae", "vertacc"} :
                         m[k] = Null

\* A returned record whose CiscoGNSS body is the lower-case sentinel with a
\* latitude on the next line, while the state section and the last-location
\* section of the same transcript carry values of their own.
C3_Witness ==
    /\ pstate = "returned"
    /\ \E i \in 1..(Len(content) - 4) :
          /\ content[i] = W("CiscoGNSS:")
          /\ content[i + 2] = W("n/a")
          /\ content[i + 4] = W("Latitude:")
    /\ rec.val["cisco_gnss"]["not_available"] = TrueV
    /\ rec.val["cisco_gnss"]["latitude"] = Null
    /\ rec.val["gnss_state"]["latitude"] = FloatV("41.1")
    /\ rec.val["last_location_acquired"]["horacc"] = FloatV("0.9")

\* C4: when "show gnss info" is immediately followed by "No GNSS detected",
\* parse returns, the record has no_gnss_detected true and every other
\* gnss_state field null, satellites is empty and raw_data has no entries:
\* also in the record assembled with raw data requested, and also when a
\* satellite table and labelled values follow in the transcript.
C4_NoGnssDetected ==
    LET noGnss ==
            \E i \in 1..(Len(content) - 2) :
                /\ IsPrompt(content[i]) /\ PromptCmd(content[i]) = "gnss info"
                /\ content[i + 1] = NL
                /\ content[i + 2] = W("No GNSS detected")
    IN (pstate # "input" /\ noGnss) =>
          /\ pstate \in {"returned", "assembled", "printed"}
          /\ rec.val["gnss_state"]["no_gnss_detected"] = TrueV
          /\ \A k \in (DOMAIN rec.val["gnss_state"]) \ {"no_gnss_detected"} :
                rec.val["gnss_state"][k] = Null
          /\ rec.val["satellites"] = <<>>
          /\ "raw_data" \in DOMAIN rec.val => rec.val["raw_data"] = <<>>
          /\ (pstate = "assembled" /\ include_raw) =>
                /\ InSeq("raw_data", rec.keys)
                /\ "raw_data" \in DOMAIN rec.val

\* A record assembled with raw data requested from a transcript that has
\* "No GNSS detected" under the command, then a satellite table with a row
\* and a CiscoGNSS section with values.
C4_Witness ==
    /\ pstate = "assembled"
    /\ include_raw
    /\ \E i \in 1..(Len(content) - 2) :
          /\ content[i] = PromptTok(ApName, "gnss info")
          /\ content[i + 2] = W("No GNSS detected")
    /\ \E i \in 1..Len(content) : content[i] = W("Const.")
    /\ \E i \in 1..Len(content) : content[i] = W("GPS")
    /\ rec.val["cisco_gnss"]["latitude"] = FloatV("41.1")
    /\ rec.val["gnss_state"]["no_gnss_detected"] = TrueV
    /\ rec.val["raw_data"] = <<>>

\* C5: main_ap_name differs from the name on the prompt line only when the
\* last hyphen-separated segment of that name has 1 or 2 characters and the
\* host part of ap_address is longer than the name and begins with the name
\* up to and including its last hyphen; otherwise it is the observed name.
C5_NameChangedOnlyWhenTruncated ==
    (pstate \in {"returned", "assembled", "printed"} /\ ObservedName(content) # <<>>) =>
        LET observed == ObservedName(content)
            segment == LastSegment(observed)
            host == FirstDotPart(ap_address)
            prefix == SubSeq(observed, 1, Len(observed) - Len(segment))
        IN rec.val["main"]["main_ap_name"] # NameV(observed) =>
              /\ HasHyphen(observed)
              /\ Len(segment) \in {1, 2}
              /\ Len(host) > Len(observed)
              /\ SubSeq(host, 1, Len(prefix)) = prefix

-----------------------------------------------------------------------------
(* Properties of the CSV exporter                                          *)

\* C7: in the row written for a record, satellites_total_count is the
\* number of observations of its satellites list, satellites_used_count the
\* number of those whose used flag is true, satellites_unused_count their
\* difference, and satellites_<c>_total the number of observations of
\* constellation c in lower case; this for every satellites list.
C7_CountsMatchObservations ==
    (exp_result = "true" /\ ~append_mode) =>
        \A i \in 1..Len(batch) :
            "satellites" \in DOMAIN batch[i] =>
                LET sats == batch[i]["satellites"][2]
                    Cell(col) ==
                        csvfile.rows[i][CHOOSE j \in 1..Len(csvfile.header) :
                                            csvfile.header[j] = col]
                    flagged == { k \in 1..Len(sats) :
                                   Get(sats[k], "used", Null)
                                       \in {TrueV, StrV("Yes"), StrV("yes")} }
                    Of(c) == { k \in 1..Len(sats) : ConstellationOf(sats[k]) = c }
                IN /\ Cell("satellites_total_count") = IntToStr(Len(sats))
                   /\ Cell("satellites_used_count") = IntToStr(Cardinality(flagged))
                   /\ Cell("satellites_unused_count")
                          = IntToStr(Len(sats) - Cardinality(flagged))
                   /\ \A k \in 1..Len(sats) :
                          Cell("satellites_" \o ConstellationOf(sats[k]) \o "_total")
                              = IntToStr(Cardinality(Of(ConstellationOf(sats[k]))))

\* C8: the SNR statistics of a row are those of exactly the observations
\* that carry a number greater than -100 under snr, cn0 or cno, a reading of
\* 0 included, and the elevation statistics those of the observations that
\* carry such a number under elev or elevation.
C8_StatsOverValidReadings ==
    (exp_result = "true" /\ ~append_mode) =>
        \A i \in 1..Len(batch) :
            "satellites" \in DOMAIN batch[i] =>
                LET sats == batch[i]["satellites"][2]
                    Cell(col) ==
                        csvfile.rows[i][CHOOSE j \in 1..Len(csvfile.header) :
                                            csvfile.header[j] = col]
                    IsNumber(v) == v[1] \in {"num", "flt"}
                    Carried(sat, aliases) ==
                        IF \E a \in 1..Len(aliases) : IsNumber(Get(sat, aliases[a], Null))
                        THEN sat[aliases[CHOOSE a \in 1..Len(aliases) :
                                   /\ IsNumber(Get(sat, aliases[a], Null))
                                   /\ \A b \in 1..(a - 1) :
                                          ~IsNumber(Get(sat, aliases[b], Null))]]
                        ELSE Null
                    Valid(aliases) ==
                        SelectSeq([k \in 1..Len(sats) |-> Carried(sats[k], aliases)],
                                  LAMBDA v : v # Null /\ Hundredths(v) > -10000)
                    Expected(prefix, aliases) ==
                        PutStats(<<>>, prefix,
                                 SortNums([k \in 1..Len(Valid(aliases)) |->
                                             Hundredths(Valid(aliases)[k])]))
                    Agrees(prefix, aliases) ==
                        \A suffix \in {"_min", "_max", "_avg", "_median"} :
                            Cell(prefix \o suffix)
                                = CellText(Get(Expected(prefix, aliases),
                                               prefix \o suffix, Null))
                IN /\ Agrees("satellites_snr", <<"snr", "cn0", "cno">>)
                   /\ Agrees("satellites_elevation", <<"elev", "elevation">>)

\* C9: the header written in overwrite mode is the union of the column names
\* of the records of the batch in ascending lexicographic order without
\* duplicates, and so is the header the same records give in reverse order.
C9_HeaderIsSortedUnion ==
    (exp_result = "true" /\ ~append_mode) =>
        /\ \A j \in 1..(Len(csvfile.header) - 1) :
               LexLess(csvfile.header[j], csvfile.header[j + 1])
        /\ Range(csvfile.header)
               = UNION { ExtractColumnNamesFromApData(batch[i]) : i \in 1..Len(batch) }
        /\ csvfile.header
               = GetAllColumnNames([i \in 1..Len(batch) |-> batch[Len(batch) + 1 - i]])

\* Two records with different columns, the one with the later names first,
\* have been written in overwrite mode.
C9_Witness ==
    /\ exp_result = "true" /\ ~append_mode /\ Len(batch) = 2
    /\ "show_capwap_client_config" \in DOMAIN batch[1]
    /\ "raw_data" \in DOMAIN batch[2]
    /\ Len(csvfile.header) = 4
    /\ Len(csvfile.rows) = 2

\* C10: an append to a file with a header, of a batch with a field that has
\* no column in that header, succeeds, adds one row per record and leaves
\* the header and the rows written before as they were.
C10_AppendDropsUnknownFields ==
    [][ ( /\ append_mode'
          /\ csvfile.exists /\ csvfile.header # <<>>
          /\ \E i \in 1..Len(batch') :
                ~(ExtractColumnNamesFromApData(batch'[i]) \subseteq Range(csvfile.header)) )
        => ( /\ exp_result' = "true"
             /\ csvfile'.header = csvfile.header
             /\ Len(csvfile'.rows) = Len(csvfile.rows) + Len(batch')
             /\ SubSeq(csvfile'.rows, 1, Len(csvfile.rows)) = csvfile.rows
             /\ \A k \in 1..Len(csvfile'.rows) :
                    Len(csvfile'.rows[k]) = Len(csvfile.header) ) ]_vars

\* C11: a call of export_gnss_data_to_csv that returns False, in either
\* mode and for any batch, leaves the destination with the rows it had: no
\* row of the batch has been written or appended.
C11_FailedExportWritesNothing ==
    [][ exp_result' = "false" => csvfile'.rows = csvfile.rows ]_vars

\* C12: every record an assembler serializes has its top-level keys in the
\* order metadata, main, show_version, show_inventory, gnss_state,
\* gnss_postprocessor, cisco_gnss, last_location_acquired, satellites,
\* raw_data, with metadata first and raw_data, when present, last.  A key
\* outside this list may stand anywhere but first, or last after raw_data.
C12_KeysInFixedOrder ==
    pstate \in {"assembled", "printed"} =>
        /\ rec.keys[1] = "metadata"
        /\ SelectSeq(rec.keys, LAMBDA k : InSeq(k, RecordOrder))
               = SelectSeq(RecordOrder, LAMBDA k : InSeq(k, rec.keys))
        /\ InSeq("raw_data", rec.keys) => rec.keys[Len(rec.keys)] = "raw_data"

\* C13: a record serialized without a request for raw data has no raw_data
\* key, on every assembly path.
C13_RawDataOnlyOnRequest ==
    (pstate \in {"assembled", "printed"} /\ ~include_raw) =>
        ~InSeq("raw_data", rec.keys)

\* C14: parse returns a record for every transcript and never raises, also
\* when the text matched by a numeric pattern (an ellipse axis, a DOP value,
\* the hDOP after HorAcc, a latitude) is not a number.
C14_ParseNeverRaises ==
    pstate # "raised"

\* The conversion of a captured text of the given kind fails.
Malformed(kind, m) ==
    /\ m # NoMatch
    /\ \/ kind = "float" /\ ~FloatOkCap(m[1])
       \/ kind = "int" /\ ~IntOkCap(m[1])

\* C17: in every record parse returns, a declared numeric field whose
\* pattern matches text of its section that does not parse as a number holds
\* the raw matched string, neither null nor an error, in gnss_state and in
\* each of the three LocationFix sections alike.
C17_MalformedNumberKeptAsText ==
    pstate \in {"returned", "assembled", "printed"} =>
        /\ (GnssStateStart(content) # 0 /\ ~NoGnssDetected(content)) =>
              \A k \in 1..Len(GnssStatePatterns) :
                  LET m == SearchFrom(content, GnssStateStart(content),
                                      StateSectionEnd(content, GnssStateStart(content)),
                                      GnssStatePatterns[k].pat)
                  IN Malformed(GnssStatePatterns[k].kind, m) =>
                        rec.val["gnss_state"][GnssStatePatterns[k].key] = StrC(m[1])
        /\ \A s \in { <<"gnss_postprocessor", "GNSS_PostProcessor:">>,
                       <<"cisco_gnss", "CiscoGNSS:">>,
                       <<"last_location_acquired", "Last Location Acquired:">> } :
              (FindLabel(content, 1, s[2]) # 0 /\ ~MarkerNotAvailable(content, s[2])) =>
                  \A k \in 1..Len(LocationFloatFields) :
                      LET m == SearchFrom(content, FindLabel(content, 1, s[2]),
                                          SectionEnd(content, FindLabel(content, 1, s[2])),
                                          LocationFloatFields[k].pat)
                      IN Malformed("float", m) =>
                            rec.val[s[1]][LocationFloatFields[k].key] = StrC(m[1])

\* The fields named by keys are all null or all set in section m.
AllOrNothing(m, keys) ==
    \/ \A k \in keys : m[k] = Null
    \/ \A k \in keys : m[k] # Null

\* C18: in every section of every record parse returns, the three
\* uncertainty ellipse fields are all null or all set, the seven DOP values
\* pdop..tdop are all null or all set, and in the LocationFix sections horacc
\* and horacc_hdop are both null or both set.
C18_CompositeFieldsAllOrNothing ==
    pstate \in {"returned", "assembled", "printed"} =>
        /\ AllOrNothing(rec.val["gnss_state"], Range(EllipseKeys))
        /\ AllOrNothing(rec.val["gnss_state"], Range(DopKeys))
        /\ \A s \in {"gnss_postprocessor", "cisco_gnss", "last_location_acquired"} :
              /\ AllOrNothing(rec.val[s], Range(EllipseKeys))
              /\ AllOrNothing(rec.val[s], {"horacc", "horacc_hdop"})

\* The last token between the marker on token start and the earlier of the
\* next blank line and the satellite table.
BoundedSectionEnd(c, start) ==
    IF SectionEnd(c, start) < StateSectionEnd(c, start)
    THEN SectionEnd(c, start) ELSE StateSectionEnd(c, start)

\* C19: in every record parse returns, a field of gnss_state or of a
\* LocationFix section is set only if its pattern matches between the
\* marker of the section and the earlier of the next blank line and the
\* satellite table marker; a value that stands only after the blank line
\* that ends the GnssState block is not in gnss_state, and a value after the
\* table marker is not in a LocationFix section.
C19_FieldsComeFromTheirSection ==
    pstate \in {"returned", "assembled", "printed"} =>
        /\ \A k \in 1..Len(GnssStatePatterns) :
              rec.val["gnss_state"][GnssStatePatterns[k].key] # Null =>
                  /\ GnssStateStart(content) # 0
                  /\ SearchFrom(content, GnssStateStart(content),
                                BoundedSectionEnd(content, GnssStateStart(content)),
                                GnssStatePatterns[k].pat) # NoMatch
        /\ \A s \in { <<"gnss_postprocessor", "GNSS_PostProcessor:">>,
                       <<"cisco_gnss", "CiscoGNSS:">>,
                       <<"last_location_acquired", "Last Location Acquired:">> } :
              \A k \in 1..Len(LocationFloatFields) :
                  rec.val[s[1]][LocationFloatFields[k].key] # Null =>
                      /\ FindLabel(content, 1, s[2]) # 0
                      /\ SearchFrom(content, FindLabel(content, 1, s[2]),
                                    BoundedSectionEnd(content, FindLabel(content, 1, s[2])),
                                    LocationFloatFields[k].pat) # NoMatch

\* The observations of the table lines from token i (line lineNo) up to the
\* first stop line: a line that begins with "=" or holds the end-of-table
\* sentinel, or line MaxTableLines.  A constellation line with fewer than
\* MinSatelliteColumns parts gives none.
RECURSIVE ObservationsBeforeStop(_, _, _, _)
ObservationsBeforeStop(c, i, lineNo, headers) ==
    IF lineNo >= MaxTableLines \/ i > Len(c) + 1 THEN <<>>
    ELSE IF IsEndOfTable(LineParts(c, i, LineEnd(c, i))) THEN <<>>
    ELSE (IF /\ IsConstellationLine(LineParts(c, i, LineEnd(c, i)))
             /\ Len(LineParts(c, i, LineEnd(c, i))) >= MinSatelliteColumns
          THEN << SatFields([constellation |-> StrV(LineParts(c, i, LineEnd(c, i))[1])],
                            LineParts(c, i, LineEnd(c, i)), headers, 2) >>
          ELSE <<>>)
         \o ObservationsBeforeStop(c, LineEnd(c, i) + 1, lineNo + 1, headers)

\* C20: in every record parse returns for a transcript with a satellite
\* table, the satellites are the observations of the constellation lines
\* with five or more columns that stand after the header row and before the
\* first stop line (a line that begins with "=", a line that holds the
\* end-of-table sentinel, line 50 of the table), in line order; no line at
\* or after a stop line gives an observation, and there are at most 49.
C20_ObservationsStopAtStopLine ==
    (pstate \in {"returned", "assembled", "printed"}
       /\ ~NoGnssDetected(content)
       /\ FindLabel(content, 1, "Const.") # 0) =>
        /\ Len(rec.val["satellites"]) < MaxTableLines
        /\ rec.val["satellites"]
              = ObservationsBeforeStop(
                    content, LineEnd(content, FindLabel(content, 1, "Const.")) + 1, 1,
                    LineParts(content, FindLabel(content, 1, "Const."),
                              LineEnd(content, FindLabel(content, 1, "Const."))))

-----------------------------------------------------------------------------
(* Properties of parse_text                                                *)

\* The entry of TextFieldTable a labelled line names.
FieldOfLine(line) ==
    CHOOSE k \in 1..Len(TextFieldTable) : TextFieldTable[k][2] = StrLower(line.label)

\* The text has two or more lines, every line is a labelled line whose value
\* its field's pattern accepts, and no field has two lines.
OneLinePerField(lines) ==
    /\ Len(lines) >= 2
    /\ \A i \in 1..Len(lines) :
          /\ lines[i] # EmptyLine
          /\ GroupOf(TextFieldTable[FieldOfLine(lines[i])][3], lines[i].value) # NoMatch
    /\ \A i, j \in 1..Len(lines) :
          i # j => FieldOfLine(lines[i]) # FieldOfLine(lines[j])

\* C15: parse_text of a multi-line text with one "Label : value" line per
\* field returns every field of the text with the value of its line, as a
\* stripped string, a number or an integer according to the field, on
\* whichever line the label stands.
C15_EveryLabelledLineIsReturned ==
    (text_result.parsed /\ OneLinePerField(input_text)) =>
        \A i \in 1..Len(input_text) :
            LET f == TextFieldTable[FieldOfLine(input_text[i])]
            IN /\ f[1] \in DOMAIN text_result.fields
               /\ text_result.fields[f[1]]
                      = FieldValue(f[3], GroupOf(f[3], input_text[i].value)[1])

-----------------------------------------------------------------------------
(* Properties of the rows of the exporter                                  *)

\* C16: the row _flatten_ap_data returns for a record of the batch and the
\* column list of the export (the header computed from the batch, or the
\* header of the existing file in append mode) has exactly the columns of
\* that list as its keys, none missing and none extra.
C16_RowKeysAreTheColumns ==
    \A i \in 1..Len(batch) :
        DOMAIN FlattenApData(batch[i], csvfile.header) = Range(csvfile.header)

\* The cell of the i-th data row of the file in the column col of its header.
CellOf(file, i, col) ==
    file.rows[i][CHOOSE j \in 1..Len(file.header) : file.header[j] = col]

\* Column col is in the header and row i holds the formatted value v in it.
RowHolds(file, i, col, v) ==
    /\ InSeq(col, file.header)
    /\ CellOf(file, i, col) = FormatCsvValue(v)

\* C21: an export in overwrite mode succeeds, and for every record of the
\* batch every scalar field f of a dictionary section s has the column s_f,
\* with the formatted value of f in the row of the record, every raw_data
\* key k has its value in the column raw_k, and every key of the flattened
\* row of the record is a column of the header.
C21_ColumnUniverseComplete ==
    (~append_mode /\ batch # <<>>) =>
        /\ exp_result = "true"
        /\ Len(csvfile.rows) = Len(batch)
        /\ \A i \in 1..Len(batch) :
              /\ \A s \in DOMAIN batch[i] \ {"satellites", "raw_data"} :
                    IsDict(batch[i][s]) =>
                        \A f \in DOMAIN batch[i][s][2] :
                            ~(IsList(batch[i][s][2][f]) \/ IsDict(batch[i][s][2][f])) =>
                                RowHolds(csvfile, i, s \o "_" \o f, batch[i][s][2][f])
              /\ ("raw_data" \in DOMAIN batch[i] /\ IsDict(batch[i]["raw_data"])) =>
                    \A k \in DOMAIN batch[i]["raw_data"][2] :
                        RowHolds(csvfile, i, "raw_" \o k, batch[i]["raw_data"][2][k])
              /\ DOMAIN FlattenApData(batch[i], csvfile.header)
                     \subseteq Range(csvfile.header)

\* An overwrite export of two records, the first with raw key/value pairs
\* and the second with satellites of a constellation the first lacks.
C21_Witness ==
    /\ ~append_mode
    /\ exp_result = "true"
    /\ Len(batch) = 2
    /\ "raw_data" \in DOMAIN batch[1]
    /\ "satellites" \in DOMAIN batch[2]
    /\ InSeq("satellites_glonass_total", csvfile.header)
    /\ CellOf(csvfile, 1, "raw_fix") = "1"

\* C22: a call in append mode with a batch that is not empty, on a
\* destination that does not exist or that exists with a first line that
\* gives no header, returns True and leaves what overwrite mode leaves: the
\* header computed from the batch and one row per record, nothing else.
C22_AppendWithoutHeaderOverwrites ==
    (exports > 0 /\ append_mode /\ batch # <<>>
       /\ (~dest_before.exists \/ dest_before.header = <<>>)) =>
        /\ exp_result = "true"
        /\ csvfile.exists
        /\ csvfile.header = GetAllColumnNames(batch)
        /\ Len(csvfile.rows) = Len(batch)
        /\ csvfile = ExportGnssDataToCsv(batch, dest_before, FALSE).file

\* An append of two records to a file that had a line but no header.
C22_Witness ==
    /\ append_mode
    /\ dest_before = HeaderlessFile
    /\ exp_result = "true"
    /\ Len(batch) = 2
    /\ Len(csvfile.rows) = 2
    /\ csvfile.header # <<>>

\* The cells csv.DictWriter writes for a record under the header.
RowOf(data, header) ==
    [j \in 1..Len(header) |-> CellText(FlattenApData(data, header)[header[j]])]

\* C23: a call that returns True for a batch of N records leaves exactly N
\* new data rows in batch order, after a freshly written header in
\* overwrite mode and after the unchanged header and rows of the
\* destination in append mode; a call with an empty batch returns False and
\* leaves the destination as it was.
C23_OneRowPerRecord ==
    exports > 0 =>
        /\ batch = <<>> => (exp_result = "false" /\ csvfile = dest_before)
        /\ (exp_result = "true" /\ append_mode
               /\ dest_before.exists /\ dest_before.header # <<>>) =>
              /\ csvfile.header = dest_before.header
              /\ csvfile.rows
                    = dest_before.rows
                      \o [i \in 1..Len(batch) |-> RowOf(batch[i], dest_before.header)]
        /\ (exp_result = "true"
               /\ ~(append_mode /\ dest_before.exists /\ dest_before.header # <<>>)) =>
              /\ csvfile.header = GetAllColumnNames(batch)
              /\ csvfile.rows
                    = [i \in 1..Len(batch) |-> RowOf(batch[i], csvfile.header)]


\* The sections of a record that hold a slots list.
SlotSections(data) ==
    { sec \in DOMAIN data \ {"satellites", "raw_data"} :
        /\ IsDict(data[sec])
        /\ "slots" \in DOMAIN data[sec][2]
        /\ IsList(data[sec][2]["slots"]) }

\* The slot objects of section sec of a record.
SlotsOf(data, sec) == data[sec][2]["slots"][2]

\* The column of field f of the slot numbered n of section sec.
SlotFieldColumn(sec, n, f) == sec \o "_slot" \o IntToStr(n) \o "_" \o f

\* Column col is in the header once.
OneColumn(header, col) == Cardinality({j \in 1..Len(header) : header[j] = col}) = 1

\* C26: after an export in overwrite mode, for every record with a slots
\* list under a section s, the row's s_slots_count is the number of slot
\* objects of the list, the header has one column s_slot<n>_<f> for each
\* (slot number n, configuration field f) of any record of the batch, and
\* the row of the record holds the formatted value of f of slot n there.
C26_SlotsAreFlattened ==
    (exp_result = "true" /\ ~append_mode) =>
        \A i \in 1..Len(batch) : \A sec \in SlotSections(batch[i]) :
            /\ OneColumn(csvfile.header, sec \o "_slots_count")
            /\ CellOf(csvfile, i, sec \o "_slots_count")
                   = IntToStr(Len(SlotsOf(batch[i], sec)))
            /\ \A k \in 1..Len(SlotsOf(batch[i], sec)) :
                  \A f \in DOMAIN SlotsOf(batch[i], sec)[k].configuration[2] :
                     /\ \A r \in 1..Len(batch) :
                           OneColumn(csvfile.header,
                                     SlotFieldColumn(sec, SlotsOf(batch[i], sec)[k].slot_number[2], f))
                     /\ RowHolds(csvfile, i,
                                 SlotFieldColumn(sec, SlotsOf(batch[i], sec)[k].slot_number[2], f),
                                 SlotsOf(batch[i], sec)[k].configuration[2][f])

\* Two records with different slots have been written in overwrite mode; the
\* second has two slot objects, one of them without configuration fields.
C26_Witness ==
    /\ exp_result = "true" /\ ~append_mode /\ Len(batch) = 2
    /\ SlotSections(batch[1]) # {} /\ SlotSections(batch[2]) # {}
    /\ InSeq("show_capwap_client_config_slot0_band", csvfile.header)
    /\ CellOf(csvfile, 2, "show_capwap_client_config_slots_count") = "2"
    /\ CellOf(csvfile, 2, "show_capwap_client_config_slot1_on") = "true"
    /\ CellOf(csvfile, 1, "show_capwap_client_config_slot1_on") = ""


\* The number in column col of row i, -1 when the cell holds no number.
CountIn(file, i, col) ==
    IF InSeq(col, file.header) /\ IsDigits(CellOf(file, i, col))
    THEN StrToNat(CellOf(file, i, col)) ELSE -1

\* The sum over the constellations cs of the numbers in their columns.
RECURSIVE SumOfCounts(_, _, _, _)
SumOfCounts(file, i, cs, suffix) ==
    IF cs = {} THEN 0
    ELSE CountIn(file, i, "satellites_" \o (CHOOSE c \in cs : TRUE) \o suffix)
         + SumOfCounts(file, i, cs \ {CHOOSE c \in cs : TRUE}, suffix)

\* The constellations of a satellites list.
ConstellationsOf(satellites) ==
    { ConstellationOf(satellites[k]) : k \in 1..Len(satellites) }

\* C27: in the row of a record with a non-empty satellites list the counts
\* agree: total = used + unused for every constellation and for the whole
\* list, and the totals and the used counts of the constellations add up to
\* satellites_total_count and satellites_used_count.
C27_CountsAreConsistent ==
    (exp_result = "true" /\ ~append_mode) =>
        \A i \in 1..Len(batch) :
            ("satellites" \in DOMAIN batch[i] /\ batch[i]["satellites"][2] # <<>>) =>
                /\ \A c \in ConstellationsOf(batch[i]["satellites"][2]) :
                      /\ CountIn(csvfile, i, "satellites_" \o c \o "_used") >= 0
                      /\ CountIn(csvfile, i, "satellites_" \o c \o "_unused") >= 0
                      /\ CountIn(csvfile, i, "satellites_" \o c \o "_total")
                             = CountIn(csvfile, i, "satellites_" \o c \o "_used")
                               + CountIn(csvfile, i, "satellites_" \o c \o "_unused")
                /\ CountIn(csvfile, i, "satellites_used_count") >= 0
                /\ CountIn(csvfile, i, "satellites_unused_count") >= 0
                /\ SumOfCounts(csvfile, i, ConstellationsOf(batch[i]["satellites"][2]), "_total")
                       = CountIn(csvfile, i, "satellites_total_count")
                /\ SumOfCounts(csvfile, i, ConstellationsOf(batch[i]["satellites"][2]), "_used")
                       = CountIn(csvfile, i, "satellites_used_count")
                /\ CountIn(csvfile, i, "satellites_total_count")
                       = CountIn(csvfile, i, "satellites_used_count")
                         + CountIn(csvfile, i, "satellites_unused_count")

\* A list of two observations of different constellations, one of them
\* used, has been written.
C27_Witness ==
    /\ exp_result = "true" /\ ~append_mode /\ Len(batch) = 1
    /\ "satellites" \in DOMAIN batch[1]
    /\ Len(batch[1]["satellites"][2]) = 2
    /\ CountIn(csvfile, 1, "satellites_total_count") = 2
    /\ CountIn(csvfile, 1, "satellites_gps_used") = 1
    /\ CountIn(csvfile, 1, "satellites_unknown_unused") = 1


-----------------------------------------------------------------------------
(* Properties of the parser and the exporter together                        *)

\* float(s) in hundredths, for a word with at most two decimals.
HundredthsOf(s) ==
    StrToFloat(s)[2] * (CASE StrToFloat(s)[3] = 0 -> 100
                          [] StrToFloat(s)[3] = 1 -> 10
                          [] OTHER -> 1)

\* A value of a record of the parser as the exporter reads it: the int of a
\* word of digits, the float of a decimal word, every other value as it is.
ExportedValue(v) ==
    CASE v[1] = "int" -> NumV(StrToNat(v[2]))
      [] v[1] = "float" -> FltV(HundredthsOf(v[2]))
      [] OTHER -> v

\* The record with nothing but the satellites list of the parser's record.
SatellitesRecord(satellites) ==
    [satellites |->
        ListV([i \in 1..Len(satellites) |->
                 [k \in DOMAIN satellites[i] |-> ExportedValue(satellites[i][k])]])]

\* The row _flatten_ap_data makes of a record exported alone.
RowAlone(data) == FlattenApData(data, GetAllColumnNames(<<data>>))

\* The table of the transcript has the header row of "show gnss info".
HasTableHeader(c) ==
    /\ FindLabel(c, 1, "Const.") # 0
    /\ LineParts(c, FindLabel(c, 1, "Const."), LineEnd(c, FindLabel(c, 1, "Const.")))
           = <<"Const.", "SatId", "CNO", "Elev.", "Azim.", "Signal", "Used", "Health">>

\* The observation has a number under the header name.
HasNumber(sat, name) == name \in DOMAIN sat /\ sat[name][1] \in {"int", "float"}

\* C28: the row of a record that parse returned for a table with the header
\* row "Const. SatId CNO Elev. Azim. Signal Used Health" and with a row that
\* has a number for the elevation and a number for the CNO (the table has no
\* negative numbers) has the four elevation statistics and the four SNR
\* statistics.
C28_ParserAndExporterAgree ==
    (/\ pstate \in {"returned", "assembled", "printed"}
     /\ "satellites" \in DOMAIN rec.val
     /\ HasTableHeader(content)
     /\ \E i \in 1..Len(rec.val["satellites"]) :
           /\ HasNumber(rec.val["satellites"][i], "elev.")
           /\ HasNumber(rec.val["satellites"][i], "cno")) =>
        \A kind \in {"satellites_elevation", "satellites_snr"} :
            \A suffix \in {"_min", "_max", "_avg", "_median"} :
                /\ (kind \o suffix) \in DOMAIN RowAlone(SatellitesRecord(rec.val["satellites"]))
                /\ CellText(RowAlone(SatellitesRecord(rec.val["satellites"]))[kind \o suffix]) # ""

-----------------------------------------------------------------------------
(* Properties of CapwapConfigParser                                          *)

\* The lines that are "Slot N Config:" headings among the first i.
HeadingsUpTo(lines, i) == {j \in 1..i : IsHeading(lines[j])}

\* Line i is a "key : value" line.
IsKeyValue(line) == ~IsHeading(line) /\ line.key # "" /\ line.value # ""

\* Line i is a sub-section header "key:".
IsSectionHeader(line) == ~IsHeading(line) /\ line.key # "" /\ line.value = ""

\* The heading of the block line i is in.
BlockOf(lines, i) == CHOOSE h \in HeadingsUpTo(lines, i) : \A j \in HeadingsUpTo(lines, i) : j <= h

\* The sub-section headers of the block of line i that come before it.
HeadersBefore(lines, i) ==
    {s \in (BlockOf(lines, i) + 1)..(i - 1) : IsSectionHeader(lines[s])}

\* The configuration of the slot whose heading is line h.
ConfigurationOf(config, lines, h) ==
    config["slots"][2][Cardinality(HeadingsUpTo(lines, h))].configuration[2]

\* d holds the key and the value of line.
HoldsLine(d, line) ==
    /\ NormalizeKey(line.key) \in DOMAIN d
    /\ d[NormalizeKey(line.key)] = NormalizeValue(line.value)

\* The line i of a block is in the configuration of its slot: at top level
\* when it is indented as the lines of a slot are, under the sub-section
\* whose header is the last one before it when it is indented further.
LineExtracted(config, lines, i) ==
    IF lines[i].indent < MinSectionIndent \/ HeadersBefore(lines, i) = {}
    THEN HoldsLine(ConfigurationOf(config, lines, BlockOf(lines, i)), lines[i])
    ELSE \E s \in HeadersBefore(lines, i) :
            /\ \A t \in HeadersBefore(lines, i) : t <= s
            /\ NormalizeKey(lines[s].key)
                   \in DOMAIN ConfigurationOf(config, lines, BlockOf(lines, i))
            /\ IsDict(ConfigurationOf(config, lines, BlockOf(lines, i))[NormalizeKey(lines[s].key)])
            /\ HoldsLine(ConfigurationOf(config, lines, BlockOf(lines, i))[NormalizeKey(lines[s].key)][2],
                         lines[i])

\* One entry per block, in the order of the blocks, with the block's number.
OneEntryPerBlock(config, lines) ==
    /\ "slots" \in DOMAIN config
    /\ Len(config["slots"][2]) = Cardinality(HeadingsUpTo(lines, Len(lines)))
    /\ \A h \in HeadingsUpTo(lines, Len(lines)) :
          config["slots"][2][Cardinality(HeadingsUpTo(lines, h))].slot_number
              = NumV(lines[h].slot)

\* C24: CapwapConfigParser extracts the whole of every "Slot N Config:"
\* block: the slots list has one entry per block, in order of appearance,
\* with slot_number N, and every "key : value" line of a block, the first one
\* after the heading included, is in the configuration of its slot, at top
\* level or under its sub-section.
C24_EverySlotLineIsExtracted ==
    (capwap_config.parsed /\ HeadingsUpTo(capwap_section, Len(capwap_section)) # {}) =>
        /\ OneEntryPerBlock(capwap_config.config, capwap_section)
        /\ \A i \in 1..Len(capwap_section) :
              (/\ IsKeyValue(capwap_section[i])
               /\ capwap_section[i].indent >= SlotIndent
               /\ HeadingsUpTo(capwap_section, i) # {})
                  => LineExtracted(capwap_config.config, capwap_section, i)

-----------------------------------------------------------------------------
(* Properties of the collector                                               *)

\* The call of process_single_ap for address a is over.
Finished(a) == worker[a].pc \in {"done", "dead"}

\* C25: export_gnss_data_to_csv is called at most once in a run, and only
\* when every call of process_single_ap, in a thread or not, is over.
C25_SingleWriter ==
    /\ csv_exports <= 1
    /\ csv_exports > 0 => \A i \in 1..Len(ap_list) : Finished(ap_list[i])

\* The export has been called after a threaded run over several addresses.
C25_Witness ==
    /\ csv_exports = 1
    /\ ~Sequential
    /\ Len(ap_list) = MaxAps
    /\ Len(results) = MaxAps
    /\ \E i \in 1..Len(results) : ~results[i].success

\* The number of entries of results for address a.
EntriesFor(a) == Cardinality({ i \in 1..Len(results) : results[i].ap_address = a })

\* C29: once the processing phase is over, results holds exactly one entry
\* for every address of ap_list and none for any other, whatever failed
\* inside process_single_ap.
C29_OneResultPerAddress ==
    main_pc \in {"summary", "done"} =>
        /\ Len(results) = Len(ap_list)
        /\ \A i \in 1..Len(ap_list) : EntriesFor(ap_list[i]) = 1

\* C30: a call of process_single_ap that obtained a connection has called
\* connection.disconnect() by the time it returns.
C30_ConnectionReleased ==
    \A a \in ApPool :
        (worker[a].pc \in {"returned", "done"} /\ worker[a].connection # "none")
            => worker[a].disconnected

=============================================================================
